---- MODULE Spec2Model ----
(***************************************************************************)
(* Model of the pedestrian-sketchiness analysis pipeline:                  *)
(*   query_snippets/crosswalks.sql          (phase 1: roads, crossings,    *)
(*                                           road<->crossing links)        *)
(*   query_snippets/crosswalk_distances.sql (phase 2: 20 m segments,       *)
(*                                           nearest marked crossing)      *)
(*   query_snippets/unmarked_crosswalks.sql (phase 3: unmarked crossings)  *)
(* Every table is a set of rows; every SQL statement that changes a table  *)
(* is one action; pc is the statement psql executes next.                  *)
(*                                                                         *)
(* Geometry is planar and one-dimensional: a line is a sequence of         *)
(* coordinates (its vertices), a point is one coordinate.  All lengths     *)
(* are in decimetres, so that the 0.2 m and 0.5 m tolerances are integers. *)
(* Scores are in thousandths (0 .. 1000 stands for 0.0 .. 1.0).            *)
(***************************************************************************)
EXTENDS Integers, Sequences, FiniteSets, TLC

\* ------------------------------------------------------------------ bounds
\* At most this many line features in planet_osm_line.
MaxRoads == 2
\* At most this many point features in planet_osm_point.
MaxCrossings == 2

\* ------------------------------------------------------- program constants
\* crosswalks_params.snap_dist = 0.2 (m), in decimetres.
SnapDist == 2
\* params.segment_len_m = 20.0 (m), in decimetres.
SegmentLen == 200
\* ST_DWithin(s.geom, m.geom, 500.0) (m), in decimetres.
SearchRadius == 5000
\* COALESCE(nearest.dist_m, 500.0) (m), in decimetres.
FarSentinel == 5000
\* ST_DWithin(cp.geom, s.geom, 0.5) (m), in decimetres.
TightTol == 5

\* ----------------------------------------------------------- SQL values
\* NULL of a numeric column (all real values of such columns are >= 0).
NULLNUM == -1
\* NULL of a text column / an absent hstore key (tags->'k' yields NULL).
NULLSTR == "<null>"
\* Three-valued booleans.
SqlTrue == "t"
SqlFalse == "f"
SqlNull == "null"

Bool3(b) == IF b THEN SqlTrue ELSE SqlFalse

Or3(a, b) ==
    IF a = SqlTrue \/ b = SqlTrue THEN SqlTrue
    ELSE IF a = SqlNull \/ b = SqlNull THEN SqlNull
    ELSE SqlFalse

And3(a, b) ==
    IF a = SqlFalse \/ b = SqlFalse THEN SqlFalse
    ELSE IF a = SqlNull \/ b = SqlNull THEN SqlNull
    ELSE SqlTrue

\* x = v, x <> v and x IN (set) of text values: NULL when x is NULL.
Eq3(x, v) == IF x = NULLSTR THEN SqlNull ELSE Bool3(x = v)
Ne3(x, v) == IF x = NULLSTR THEN SqlNull ELSE Bool3(x # v)
In3(x, S) == IF x = NULLSTR THEN SqlNull ELSE Bool3(x \in S)
\* x IS NOT NULL is never NULL.
IsNotNull3(x) == Bool3(x # NULLSTR)

\* btrim(name): the model's only blank text values are '' and ' '.
Btrim(s) == IF s = " " THEN "" ELSE s

\* --------------------------------------------------------------- geometry
Abs(x) == IF x < 0 THEN -x ELSE x
Min2(a, b) == IF a <= b THEN a ELSE b
Max2(a, b) == IF a >= b THEN a ELSE b
SetMin(S) == CHOOSE x \in S : \A y \in S : x <= y
SetMax(S) == CHOOSE x \in S : \A y \in S : x >= y
Reverse(s) == [i \in 1..Len(s) |-> s[Len(s) + 1 - i]]

\* ST_Length of a line (a sequence of vertices).
RECURSIVE LineLength(_)
LineLength(line) ==
    IF Len(line) < 2 THEN 0
    ELSE Abs(line[2] - line[1]) + LineLength(Tail(line))

\* The point at arc length d along a line, 0 <= d <= LineLength(line).
RECURSIVE PointAt(_, _)
PointAt(line, d) ==
    IF Len(line) < 2 THEN line[1]
    ELSE LET e == Abs(line[2] - line[1])
         IN IF d <= e
            THEN IF line[2] >= line[1] THEN line[1] + d ELSE line[1] - d
            ELSE PointAt(Tail(line), d - e)

\* The vertices of a line whose arc length lies strictly between d0 and d1
\* (acc is the arc length of line[1]).
RECURSIVE InnerVertices(_, _, _, _)
InnerVertices(line, acc, d0, d1) ==
    IF Len(line) < 2 THEN << >>
    ELSE LET a == acc + Abs(line[2] - line[1])
         IN (IF a > d0 /\ a < d1 /\ Len(line) > 2 THEN <<line[2]>> ELSE << >>)
            \o InnerVertices(Tail(line), a, d0, d1)

\* ST_LineSubstring(line, f0, f1) with the fractions given as <<numerator,
\* denominator>>: the part of the line between arc lengths f0 * length and
\* f1 * length.
LineSubstring(line, f0, f1) ==
    LET len == LineLength(line)
        d0 == (f0[1] * len) \div f0[2]
        d1 == (f1[1] * len) \div f1[2]
    IN <<PointAt(line, d0)>> \o InnerVertices(line, 0, d0, d1) \o <<PointAt(line, d1)>>

\* ST_Distance(point, line): the planar distance of a point to a line.
PointLineDist(p, line) ==
    IF Len(line) < 2 THEN Abs(p - line[1])
    ELSE SetMin({ Max2(0, Max2(Min2(line[i], line[i + 1]) - p,
                               p - Max2(line[i], line[i + 1])))
                  : i \in 1..(Len(line) - 1) })

\* ST_Distance(point, geom) for a geometry of several line parts.
PointGeomDist(p, geom) == SetMin({ PointLineDist(p, geom[i]) : i \in 1..Len(geom) })

\* The bounding box of a geometry: <<min, max>> over all its vertices.
BBox(geom) ==
    LET V == UNION { { geom[i][j] : j \in 1..Len(geom[i]) } : i \in 1..Len(geom) }
    IN <<SetMin(V), SetMax(V)>>

\* ST_LineMerge: two line parts that share an end point are sewn into one
\* line; the parts of a geometry of one part, or of more than two parts (which
\* in this model never touch), are kept.
LineMerge(geom) ==
    IF Len(geom) # 2 THEN geom
    ELSE LET p == geom[1]
             q == geom[2]
         IN IF p[Len(p)] = q[1] THEN <<p \o Tail(q)>>
            ELSE IF q[Len(q)] = p[1] THEN <<q \o Tail(p)>>
            ELSE IF p[1] = q[1] THEN <<Reverse(p) \o Tail(q)>>
            ELSE IF p[Len(p)] = q[Len(q)] THEN <<p \o Tail(Reverse(q))>>
            ELSE geom

\* NULL of a geometry column (the model holds no empty geometry).
NULLGEOM == << >>

\* ---------------------------------------------------- phase 1: classifier
\* params.road_highways
RoadHighways ==
    {"living_street", "primary", "primary_link", "residential", "secondary",
     "secondary_link", "tertiary", "tertiary_link", "trunk", "trunk_link"}

\* The crossing values that make a crossing marked.
MarkedVocabulary ==
    {"controlled", "marked", "pedestrian_signals", "traffic_signals", "zebra",
     "uncontrolled"}

\* COALESCE(NULLIF(p.tags->'crossing', ''), 'unknown')
CrossingType(crossing) ==
    IF crossing = NULLSTR \/ crossing = "" THEN "unknown" ELSE crossing

\* (tags->'crossing') IN (...) OR (markings IS NOT NULL AND markings != 'no')
\*                             OR (signals IS NOT NULL AND signals != 'no')
MarkedFlag(crossing, markings, signals) ==
    Or3(Or3(In3(crossing, MarkedVocabulary),
            And3(IsNotNull3(markings), Ne3(markings, "no"))),
        And3(IsNotNull3(signals), Ne3(signals, "no")))

\* (p.tags->'crossing') = 'unmarked'
UnmarkedFlag(crossing) == Eq3(crossing, "unmarked")

\* CREATE TABLE roads AS ... (use_bbox is false)
RoadsOf(lines) ==
    { [road_osm_id |-> l.osm_id, name |-> l.name, highway |-> l.highway,
       geom |-> l.way]
      : l \in { x \in lines : x.way # NULLGEOM /\ x.highway \in RoadHighways } }

\* CREATE UNLOGGED TABLE crosswalk_raw_points AS ...
CrosswalkRawPointsOf(points) ==
    { [point_osm_id |-> p.osm_id,
       crossing_type |-> CrossingType(p.crossing),
       marked |-> MarkedFlag(p.crossing, p.markings, p.signals),
       unmarked |-> UnmarkedFlag(p.crossing),
       geom |-> p.way]
      : p \in { x \in points : x.highway = "crossing" } }

\* ------------------------------------------------------- phase 1: linker
\* The bounding-box test without ST_Expand.
BBoxOverlapsUnexpanded(geom, p, d) ==
    LET b == BBox(geom) IN b[1] <= p /\ b[2] >= p

\* r.geom && ST_Expand(cp.geom, snap_dist): the bounding boxes intersect.
BBoxOverlapsExpanded(geom, p, d) ==
    LET b == BBox(geom) IN b[1] <= p + d /\ b[2] >= p - d

\* ST_DWithin(cp.geom, r.geom, snap_dist)
DWithin(p, geom, d) == PointGeomDist(p, geom) <= d

\* CREATE UNLOGGED TABLE road_crosswalks AS ...
RoadCrosswalksOf(rawPoints, roadRows) ==
    { [road_osm_id |-> r.road_osm_id, point_osm_id |-> cp.point_osm_id]
      : <<cp, r>> \in { x \in rawPoints \X roadRows :
                          /\ BBoxOverlapsExpanded(x[2].geom, x[1].geom, SnapDist)
                          /\ DWithin(x[1].geom, x[2].geom, SnapDist) } }

\* CREATE TABLE crosswalk_points AS ...: the raw points that have at least one
\* link, each with the set of its roads (array_agg(DISTINCT road_osm_id)).
CrosswalkPointsOf(rawPoints, links) ==
    { [point_osm_id |-> cp.point_osm_id, crossing_type |-> cp.crossing_type,
       marked |-> cp.marked, unmarked |-> cp.unmarked, geom |-> cp.geom,
       road_osm_ids |-> { rc.road_osm_id : rc \in { x \in links :
                                             x.point_osm_id = cp.point_osm_id } }]
      : cp \in { x \in rawPoints :
                   \E rc \in links : rc.point_osm_id = x.point_osm_id } }

\* ---------------------------------------------------- phase 2: segmenter
CeilDiv(a, b) == (a + b - 1) \div b

\* road_parts: (ST_Dump(ST_LineMerge(r.geom))).geom, one row per line part.
RoadParts(roadRows) ==
    UNION { { [road_osm_id |-> r.road_osm_id, name |-> r.name,
               highway |-> r.highway, part |-> i, geom |-> LineMerge(r.geom)[i]]
              : i \in 1..Len(LineMerge(r.geom)) }
            : r \in { x \in roadRows : x.geom # NULLGEOM } }

\* road_parts_len: WHERE NOT ST_IsEmpty(geom) AND ST_Length(geom) > 0
RoadPartsLen(roadRows) ==
    { [road_osm_id |-> p.road_osm_id, name |-> p.name, highway |-> p.highway,
       part |-> p.part, geom |-> p.geom, geom_len |-> LineLength(p.geom)]
      : p \in { x \in RoadParts(roadRows) :
                  Len(x.geom) > 0 /\ LineLength(x.geom) > 0 } }

\* The upper end of generate_series:
\* GREATEST(CEIL(r.geom_len / segment_len_m)::int - 1, 0)
LastSeries(geomLen) == Max2(CeilDiv(geomLen, SegmentLen) - 1, 0)

\* The start fraction (n * segment_len_m) / geom_len.
StartFraction(n, geomLen) == <<n * SegmentLen, geomLen>>

\* A variant of EndFraction that runs every segment to the end of its part.
EndFractionToEnd(n, geomLen) == <<1, 1>>

\* The end fraction LEAST(((n + 1) * segment_len_m) / geom_len, 1.0).
EndFraction(n, geomLen) ==
    IF (n + 1) * SegmentLen <= geomLen
    THEN <<(n + 1) * SegmentLen, geomLen>>
    ELSE <<1, 1>>

\* segmented: one row per part and per n of generate_series.
Segmented(roadRows) ==
    UNION { { [road_osm_id |-> r.road_osm_id, name |-> r.name,
               highway |-> r.highway, part |-> r.part, segment_no |-> n,
               geom |-> LineSubstring(r.geom, StartFraction(n, r.geom_len),
                                      EndFraction(n, r.geom_len))]
              : n \in 0..LastSeries(r.geom_len) }
            : r \in RoadPartsLen(roadRows) }

\* The orders ORDER BY segment_no may put a road's rows in: rows with the
\* same segment_no (from different parts) come in any order.
RECURSIVE Orderings(_)
Orderings(S) ==
    IF S = {} THEN { << >> }
    ELSE LET m == SetMin({ r.segment_no : r \in S })
         IN UNION { { <<r>> \o t : t \in Orderings(S \ {r}) }
                    : r \in { x \in S : x.segment_no = m } }

\* A variant of Numbered that keeps n of generate_series as the segment_no.
NumberedBySeries(o) ==
    { [road_osm_id |-> o[i].road_osm_id, name |-> o[i].name,
       highway |-> o[i].highway, segment_no |-> o[i].segment_no, geom |-> o[i].geom]
      : i \in 1..Len(o) }

\* row_number() OVER (PARTITION BY road_osm_id ORDER BY segment_no) - 1,
\* for the rows of one road in the order o.
Numbered(o) ==
    { [road_osm_id |-> o[i].road_osm_id, name |-> o[i].name,
       highway |-> o[i].highway, segment_no |-> i - 1, geom |-> o[i].geom]
      : i \in 1..Len(o) }

\* The tables CREATE UNLOGGED TABLE road_segments_20m AS ... may produce for
\* the roads rids.
RECURSIVE SegmentTables(_, _)
SegmentTables(rids, rows) ==
    IF rids = {} THEN { {} }
    ELSE LET rid == CHOOSE x \in rids : TRUE
         IN { T \cup Numbered(o)
              : <<T, o>> \in SegmentTables(rids \ {rid}, rows)
                             \X Orderings({ x \in rows : x.road_osm_id = rid }) }

RoadSegments20mTables(roadRows) ==
    SegmentTables({ r.road_osm_id : r \in Segmented(roadRows) }, Segmented(roadRows))

\* ------------------------------------- phase 2: nearest marked crossing
\* CREATE UNLOGGED TABLE marked_crosswalk_road AS SELECT DISTINCT ...
\* WHERE rc.point_osm_id IS NOT NULL AND rp.marked IS TRUE
MarkedCrosswalkRoadOf(links, rawPoints) ==
    { [road_osm_id |-> x[1].road_osm_id, crosswalk_id |-> x[2].point_osm_id,
       geom |-> x[2].geom]
      : x \in { y \in links \X rawPoints :
                  /\ y[2].point_osm_id = y[1].point_osm_id
                  /\ y[2].marked = SqlTrue } }

\* ST_Distance(s.geom, m.geom) and s.geom <-> m.geom, s a segment, m a point.
SegPointDist(segGeom, p) == PointLineDist(p, segGeom)

\* A variant of NameRadiusCandidates without the ST_DWithin restriction.
NameRadiusCandidatesAnyDistance(s, mcr, roadRows) ==
    { [crosswalk_id |-> m.crosswalk_id, dist_m |-> PointLineDist(m.geom, s.geom)]
      : m \in { x \in mcr :
                  /\ s.name # NULLSTR
                  /\ s.name # "" /\ s.name # " "
                  /\ \E r2 \in roadRows : /\ r2.road_osm_id = x.road_osm_id
                                          /\ r2.name # NULLSTR
                                          /\ r2.name = s.name } }

\* A variant of NameRadiusCandidates that joins roads on the segment's own
\* road instead of on its name.
NameRadiusCandidatesOwnRoad(s, mcr, roadRows) ==
    { [crosswalk_id |-> m.crosswalk_id, dist_m |-> PointLineDist(m.geom, s.geom)]
      : m \in { x \in mcr :
                  /\ s.name # NULLSTR
                  /\ s.name # "" /\ s.name # " "
                  /\ x.road_osm_id = s.road_osm_id
                  /\ PointLineDist(x.geom, s.geom) <= SearchRadius } }

\* The rows of the name-radius LATERAL subquery before ORDER BY / LIMIT:
\* marked crossings on a road of the segment's name, within 500 m.
NameRadiusCandidates(s, mcr, roadRows) ==
    { [crosswalk_id |-> m.crosswalk_id, dist_m |-> SegPointDist(s.geom, m.geom)]
      : m \in { x \in mcr :
                  /\ s.name # NULLSTR
                  /\ Btrim(s.name) # ""
                  /\ \E r2 \in roadRows : /\ r2.road_osm_id = x.road_osm_id
                                          /\ r2.name # NULLSTR
                                          /\ r2.name = s.name
                  /\ SegPointDist(s.geom, x.geom) <= SearchRadius } }

\* ORDER BY s.geom <-> m.geom LIMIT 1 under LEFT JOIN LATERAL ... ON true:
\* any one candidate at the least distance (the order names no second key),
\* or the all-NULL row when there is no candidate.
NearestPicks(cands) ==
    IF cands = {} THEN { [crosswalk_id |-> NULLNUM, dist_m |-> NULLNUM] }
    ELSE { c \in cands : \A d \in cands : c.dist_m <= d.dist_m }

\* COALESCE(x, d)
Coalesce(x, d) == IF x = NULLNUM THEN d ELSE x

DistRow(s, id, dist) ==
    [road_osm_id |-> s.road_osm_id, name |-> s.name, highway |-> s.highway,
     segment_no |-> s.segment_no, geom |-> s.geom,
     nearest_marked_crosswalk_id |-> id, dist_to_marked_crosswalk_m |-> dist]

\* A variant of NameRadiusDistTables with JOIN LATERAL in place of LEFT JOIN
\* LATERAL ... ON true: a segment without a candidate yields no row.
RECURSIVE NameRadiusDistTablesInner(_, _, _)
NameRadiusDistTablesInner(segs, mcr, roadRows) ==
    IF segs = {} THEN { {} }
    ELSE LET s == CHOOSE x \in segs : TRUE
             cands == NameRadiusCandidates(s, mcr, roadRows)
         IN IF cands = {} THEN NameRadiusDistTablesInner(segs \ {s}, mcr, roadRows)
            ELSE { T \cup { DistRow(s, n.crosswalk_id, n.dist_m) }
                   : <<T, n>> \in NameRadiusDistTablesInner(segs \ {s}, mcr, roadRows)
                                  \X NearestPicks(cands) }

\* The tables the first CREATE UNLOGGED TABLE road_segments_20m_crosswalk_dist
\* (name-radius policy) may produce for the segments segs.
RECURSIVE NameRadiusDistTables(_, _, _)
NameRadiusDistTables(segs, mcr, roadRows) ==
    IF segs = {} THEN { {} }
    ELSE LET s == CHOOSE x \in segs : TRUE
         IN { T \cup { DistRow(s, n.crosswalk_id, Coalesce(n.dist_m, FarSentinel)) }
              : <<T, n>> \in NameRadiusDistTables(segs \ {s}, mcr, roadRows)
                             \X NearestPicks(NameRadiusCandidates(s, mcr, roadRows)) }

\* row_number() OVER (ORDER BY road_osm_id, segment_no)
RowNumber(r, rows) ==
    1 + Cardinality({ x \in rows :
                        \/ x.road_osm_id < r.road_osm_id
                        \/ /\ x.road_osm_id = r.road_osm_id
                           /\ x.segment_no < r.segment_no })

\* streets_analyzed with the flag set where no crossing was found.
StreetsAnalyzedOfFlagInverted(distRows) ==
    { [osm_id |-> RowNumber(r, distRows), name |-> r.name, highway |-> r.highway,
       dist_to_crossing_meters |-> r.dist_to_marked_crosswalk_m,
       nearest_crossing_marked |-> (r.nearest_marked_crosswalk_id = NULLNUM),
       geom |-> r.geom]
      : r \in distRows }

\* CREATE UNLOGGED TABLE streets_analyzed AS ...
StreetsAnalyzedOf(distRows) ==
    { [osm_id |-> RowNumber(r, distRows), name |-> r.name, highway |-> r.highway,
       dist_to_crossing_meters |-> r.dist_to_marked_crosswalk_m,
       nearest_crossing_marked |-> (r.nearest_marked_crosswalk_id # NULLNUM),
       geom |-> r.geom]
      : r \in distRows }

\* ------------------------------------- phase 2: same-name connectivity
\* CREATE UNLOGGED TABLE roads_same_name_endpoints AS ...
SameNameEndpointsOf(roadRows) ==
    { [road_osm_id |-> r.road_osm_id, name |-> r.name,
       start_pt |-> LineMerge(r.geom)[1][1],
       end_pt |-> LineMerge(r.geom)[1][Len(LineMerge(r.geom)[1])]]
      : r \in { x \in roadRows :
                  /\ x.geom # NULLGEOM
                  /\ x.name # NULLSTR
                  /\ Btrim(x.name) # ""
                  /\ Len(LineMerge(x.geom)) = 1 } }

\* The edges with only the second ST_Equals of the join condition.
SameNameEdgesOfOneWay(endpoints) ==
    { [from_road_osm_id |-> x[1].road_osm_id, to_road_osm_id |-> x[2].road_osm_id]
      : x \in { y \in endpoints \X endpoints :
                  /\ y[1].road_osm_id # y[2].road_osm_id
                  /\ y[1].name = y[2].name
                  /\ y[1].end_pt = y[2].start_pt } }

\* CREATE UNLOGGED TABLE roads_same_name_edges AS ...
SameNameEdgesOf(endpoints) ==
    { [from_road_osm_id |-> x[1].road_osm_id, to_road_osm_id |-> x[2].road_osm_id]
      : x \in { y \in endpoints \X endpoints :
                  /\ y[1].road_osm_id # y[2].road_osm_id
                  /\ y[1].name = y[2].name
                  /\ (y[1].start_pt = y[2].end_pt \/ y[1].end_pt = y[2].start_pt) } }

\* The non-recursive term of reach: one row per road with an outgoing edge.
ReachSeed(edges) ==
    { [start_road_osm_id |-> f, road_osm_id |-> f, path |-> <<f>>]
      : f \in { e.from_road_osm_id : e \in edges } }

\* to_road_osm_id = ANY (path)
AnyOf(x, path) == \E i \in 1..Len(path) : path[i] = x

\* The recursive term without its WHERE NOT (... = ANY (path)).
ReachStepUnguarded(work, edges) ==
    { [start_road_osm_id |-> x[1].start_road_osm_id,
       road_osm_id |-> x[2].to_road_osm_id,
       path |-> Append(x[1].path, x[2].to_road_osm_id)]
      : x \in { y \in work \X edges :
                  y[2].from_road_osm_id = y[1].road_osm_id } }

\* The recursive term of reach applied to the working table work.
ReachStep(work, edges) ==
    { [start_road_osm_id |-> x[1].start_road_osm_id,
       road_osm_id |-> x[2].to_road_osm_id,
       path |-> Append(x[1].path, x[2].to_road_osm_id)]
      : x \in { y \in work \X edges :
                  /\ y[2].from_road_osm_id = y[1].road_osm_id
                  /\ ~AnyOf(y[2].to_road_osm_id, y[1].path) } }

\* WITH RECURSIVE reach: the recursive term is applied to the rows of the
\* previous round until a round yields no row.
RECURSIVE ReachIterate(_, _, _)
ReachIterate(work, acc, edges) ==
    IF work = {} THEN acc
    ELSE ReachIterate(ReachStep(work, edges), acc \cup work, edges)

Reach(edges) == ReachIterate(ReachSeed(edges), {}, edges)

\* The final SELECT with the path kept among the selected columns.
ConnectedFromWithPath(rows, endpoints) ==
    { [start_road_osm_id |-> r.start_road_osm_id, road_osm_id |-> r.road_osm_id,
       path |-> r.path]
      : r \in rows }
    \cup
    { [start_road_osm_id |-> e.road_osm_id, road_osm_id |-> e.road_osm_id,
       path |-> <<e.road_osm_id>>]
      : e \in endpoints }

\* SELECT DISTINCT start_road_osm_id, road_osm_id FROM reach
\* UNION SELECT road_osm_id, road_osm_id FROM roads_same_name_endpoints
ConnectedFrom(rows, endpoints) ==
    { [start_road_osm_id |-> r.start_road_osm_id, road_osm_id |-> r.road_osm_id]
      : r \in rows }
    \cup
    { [start_road_osm_id |-> e.road_osm_id, road_osm_id |-> e.road_osm_id]
      : e \in endpoints }

\* CREATE UNLOGGED TABLE roads_same_name_connected AS WITH RECURSIVE reach ...
SameNameConnectedOf(edges, endpoints) == ConnectedFrom(Reach(edges), endpoints)

\* A variant of ConnectedCandidates restricted to the search radius.
ConnectedCandidatesWithin(s, mcr, connected) ==
    { [crosswalk_id |-> m.crosswalk_id, dist_m |-> PointLineDist(m.geom, s.geom)]
      : m \in { x \in mcr :
                  /\ \E c \in connected : /\ c.road_osm_id = x.road_osm_id
                                          /\ c.start_road_osm_id = s.road_osm_id
                  /\ PointLineDist(x.geom, s.geom) <= SearchRadius } }

\* The rows of the connected-component LATERAL subquery before ORDER BY /
\* LIMIT: marked crossings on a road of the segment's road's membership set.
ConnectedCandidates(s, mcr, connected) ==
    { [crosswalk_id |-> m.crosswalk_id, dist_m |-> SegPointDist(s.geom, m.geom)]
      : m \in { x \in mcr :
                  \E c \in connected : /\ c.road_osm_id = x.road_osm_id
                                       /\ c.start_road_osm_id = s.road_osm_id } }

\* The tables the second CREATE UNLOGGED TABLE road_segments_20m_crosswalk_dist
\* (connected-component policy) may produce for the segments segs.
RECURSIVE ConnectedDistTables(_, _, _)
ConnectedDistTables(segs, mcr, connected) ==
    IF segs = {} THEN { {} }
    ELSE LET s == CHOOSE x \in segs : TRUE
         IN { T \cup { DistRow(s, n.crosswalk_id, n.dist_m) }
              : <<T, n>> \in ConnectedDistTables(segs \ {s}, mcr, connected)
                             \X NearestPicks(ConnectedCandidates(s, mcr, connected)) }

\* ---------------------------------------------------------------- scorer
\* The scoring statements are not among the three scripts: the columns they
\* add (speed_score, ..., frogger_index) are modelled from the design of the
\* Difficulty Scorer.  A score of a NULL input is NULL.
OverrideClasses == {"residential", "living_street", "service"}

Clamp01(x) == Max2(0, Min2(1000, x))

\* clamp(distance_to_marked_m / 500, 0, 1)
DistanceScore(dist) ==
    IF dist = NULLNUM THEN NULLNUM ELSE Clamp01((dist * 1000) \div 5000)

\* clamp((speed_mph - 20) / 40, 0, 1), or the default when the speed is unknown
SpeedScore(speed) ==
    IF speed = NULLNUM THEN 500 ELSE Clamp01(((speed - 20) * 1000) \div 40)

\* clamp((lane_count - 1) / 5, 0, 1), or the default when the lanes are unknown
LanesScore(lanes) ==
    IF lanes = NULLNUM THEN 500 ELSE Clamp01(((lanes - 1) * 1000) \div 5)

\* An ordinal mapping of the highway class onto [0, 1].
VolumeScore(highway) ==
    IF highway \in OverrideClasses THEN 0
    ELSE IF highway \in {"tertiary", "tertiary_link"} THEN 400
    ELSE IF highway \in {"secondary", "secondary_link"} THEN 700
    ELSE 1000

\* The weighted sum (equal weights of 0.25), clamped, with the override.
FroggerIndex(highway, dist, speed, lanes) ==
    IF highway \in OverrideClasses THEN 0
    ELSE IF DistanceScore(dist) = NULLNUM THEN NULLNUM
    ELSE Clamp01((DistanceScore(dist) + SpeedScore(speed) + LanesScore(lanes)
                  + VolumeScore(highway)) \div 4)

\* A row of road_segments_20m_crosswalk_dist with the scorer's columns.
ScoredDistRow(r, speed, lanes) ==
    [road_osm_id |-> r.road_osm_id, name |-> r.name, highway |-> r.highway,
     segment_no |-> r.segment_no, geom |-> r.geom,
     nearest_marked_crosswalk_id |-> r.nearest_marked_crosswalk_id,
     dist_to_marked_crosswalk_m |-> r.dist_to_marked_crosswalk_m,
     speed_mph |-> speed, lanes |-> lanes,
     speed_score |-> SpeedScore(speed), lanes_score |-> LanesScore(lanes),
     volume_score |-> VolumeScore(r.highway),
     distance_from_crosswalk_score |-> DistanceScore(r.dist_to_marked_crosswalk_m),
     frogger_index |-> FroggerIndex(r.highway, r.dist_to_marked_crosswalk_m,
                                    speed, lanes)]

\* A row of streets_analyzed with the scorer's columns.
ScoredStreetRow(r, speed, lanes) ==
    [osm_id |-> r.osm_id, name |-> r.name, highway |-> r.highway,
     dist_to_crossing_meters |-> r.dist_to_crossing_meters,
     nearest_crossing_marked |-> r.nearest_crossing_marked, geom |-> r.geom,
     maxspeed |-> speed, lanes |-> lanes,
     frogger_index |-> FroggerIndex(r.highway, r.dist_to_crossing_meters,
                                    speed, lanes)]

\* --------------------------------------------- phase 3: unmarked crossings
\* The all-NULL row of a LEFT JOIN LATERAL that found no segment.
NullSegment ==
    [road_osm_id |-> NULLNUM, name |-> NULLSTR, highway |-> NULLSTR,
     segment_no |-> NULLNUM, geom |-> NULLGEOM,
     nearest_marked_crosswalk_id |-> NULLNUM,
     dist_to_marked_crosswalk_m |-> NULLNUM,
     speed_mph |-> NULLNUM, lanes |-> NULLNUM,
     speed_score |-> NULLNUM, lanes_score |-> NULLNUM, volume_score |-> NULLNUM,
     distance_from_crosswalk_score |-> NULLNUM, frogger_index |-> NULLNUM]

\* A variant of SortsNoLater for ORDER BY s.frogger_index ASC.
SortsNoLaterAscending(a, b, p) ==
    \/ a.frogger_index < b.frogger_index
    \/ /\ a.frogger_index = b.frogger_index
       /\ PointLineDist(p, a.geom) <= PointLineDist(p, b.geom)

\* The ORDER BY without its second key, the distance to the point.
SortsNoLaterIndexOnly(a, b, p) == a.frogger_index >= b.frogger_index

\* ORDER BY s.frogger_index DESC NULLS LAST, point <-> s.geom: a sorts no
\* later than b.
SortsNoLater(a, b, p) ==
    \/ a.frogger_index > b.frogger_index
    \/ /\ a.frogger_index = b.frogger_index
       /\ SegPointDist(a.geom, p) <= SegPointDist(b.geom, p)

\* ... LIMIT 1 under LEFT JOIN LATERAL ... ON true: any one candidate that
\* sorts first, or the all-NULL row.
BestPicks(cands, p) ==
    IF cands = {} THEN { NullSegment }
    ELSE { c \in cands : \A d \in cands : SortsNoLater(c, d, p) }

\* The candidates of the seg subquery of unmarked_crosswalks: the segments
\* of one road within 0.5 m of the point.
SegCandidates(p, rid, distRows) ==
    { s \in distRows : s.road_osm_id = rid /\ SegPointDist(s.geom, p) <= TightTol }

\* The candidates of the best subquery: the segments of the point's linked
\* roads (unnest(cp.road_osm_ids)) within 0.5 m of the point.
BestCandidates(cp, distRows) ==
    { s \in distRows :
        s.road_osm_id \in cp.road_osm_ids /\ SegPointDist(s.geom, cp.geom) <= TightTol }

\* A variant of PublishedIndex whose CASE yields 1.0 for the low-volume classes.
PublishedIndexOne(highway, storedIndex) ==
    IF highway # NULLSTR /\ highway \in {"residential", "living_street", "service"}
    THEN 1000 ELSE storedIndex

\* CASE WHEN highway IN ('residential', 'living_street', 'service') THEN 0.0
\*      ELSE frogger_index END
PublishedIndex(highway, storedIndex) ==
    IF highway # NULLSTR /\ highway \in OverrideClasses THEN 0 ELSE storedIndex

\* The unmarked CTE: WHERE cp.marked IS FALSE
UnmarkedCTE(rawPoints) == { cp \in rawPoints : cp.marked = SqlFalse }

\* unmarked LEFT JOIN unmarked_roads: one pair per linked road, or the pair
\* with the NULL road.
UnmarkedPairs(rawPoints, links) ==
    UNION { LET R == { rc.road_osm_id : rc \in { x \in links :
                                              x.point_osm_id = u.point_osm_id } }
            IN IF R = {} THEN { <<u, NULLNUM>> } ELSE { <<u, rid>> : rid \in R }
            : u \in UnmarkedCTE(rawPoints) }

\* r.highway of LEFT JOIN roads r ON r.road_osm_id = ur.road_osm_id
RoadHighway(rid, roadRows) ==
    IF \E r \in roadRows : r.road_osm_id = rid
    THEN (CHOOSE r \in roadRows : r.road_osm_id = rid).highway
    ELSE NULLSTR

\* r.name of LEFT JOIN roads r
RoadName(rid, roadRows) ==
    IF \E r \in roadRows : r.road_osm_id = rid
    THEN (CHOOSE r \in roadRows : r.road_osm_id = rid).name
    ELSE NULLSTR

UnmarkedRow(u, rid, seg, roadRows) ==
    [unmarked_crosswalk_id |-> u.point_osm_id, road_osm_id |-> rid,
     crossing_type |-> u.crossing_type, marked |-> u.marked,
     unmarked |-> u.unmarked, road_highway |-> RoadHighway(rid, roadRows),
     frogger_dist_to_marked_crosswalk_m |-> seg.dist_to_marked_crosswalk_m,
     frogger_index |-> PublishedIndex(RoadHighway(rid, roadRows), seg.frogger_index),
     nearest_marked_crosswalk_id |-> seg.nearest_marked_crosswalk_id,
     geom |-> u.geom]

\* The tables CREATE TABLE unmarked_crosswalks AS ... may produce for pairs.
RECURSIVE UnmarkedTables(_, _, _)
UnmarkedTables(pairs, distRows, roadRows) ==
    IF pairs = {} THEN { {} }
    ELSE LET x == CHOOSE y \in pairs : TRUE
         IN { T \cup { UnmarkedRow(x[1], x[2], seg, roadRows) }
              : <<T, seg>> \in UnmarkedTables(pairs \ {x}, distRows, roadRows)
                               \X BestPicks(SegCandidates(x[1].geom, x[2], distRows),
                                            x[1].geom) }

EnrichedRow(cp, best, roadRows) ==
    [point_osm_id |-> cp.point_osm_id, crossing_type |-> cp.crossing_type,
     marked |-> cp.marked, unmarked |-> cp.unmarked, geom |-> cp.geom,
     road_osm_ids |-> cp.road_osm_ids,
     frogger_road_osm_id |-> best.road_osm_id,
     frogger_road_name |-> RoadName(best.road_osm_id, roadRows),
     frogger_road_highway |-> best.highway,
     frogger_lanes |-> best.lanes, frogger_speed_mph |-> best.speed_mph,
     frogger_dist_to_marked_crosswalk_m |-> best.dist_to_marked_crosswalk_m,
     frogger_speed_score |-> best.speed_score,
     frogger_lanes_score |-> best.lanes_score,
     frogger_volume_score |-> best.volume_score,
     frogger_distance_from_crosswalk_score |-> best.distance_from_crosswalk_score,
     frogger_index |-> PublishedIndex(best.highway, best.frogger_index)]

\* The tables CREATE UNLOGGED TABLE unmarked_crosswalk_points_enriched AS ...
\* may produce for the crossing points cps (WHERE cp.unmarked IS TRUE).
RECURSIVE EnrichedTables(_, _, _)
EnrichedTables(cps, distRows, roadRows) ==
    IF cps = {} THEN { {} }
    ELSE LET cp == CHOOSE y \in cps : TRUE
         IN { T \cup { EnrichedRow(cp, best, roadRows) }
              : <<T, best>> \in EnrichedTables(cps \ {cp}, distRows, roadRows)
                                \X BestPicks(BestCandidates(cp, distRows), cp.geom) }

\* ------------------------------------------------------------------ state
VARIABLES
    planet_osm_line,   \* the imported line features
    planet_osm_point,  \* the imported point features
    db,                \* the rows of every derived table, by table name
    exists,            \* the names of the derived tables that exist
    pc,                \* the index in Program of the next statement
    status,            \* run-analysis.sh: "running", "complete" or "failed"
    published,         \* the outputs the completed runs left, oldest first
    export,            \* export-sketchiness-tiles.sh: its step and what it read
    panel,             \* the info panels: the index shown and its labels
    reach,             \* WITH RECURSIVE reach: its working and result rows
    map,               \* components/Map.tsx: markers, pin and selections
    game               \* the crossing minigame: status, player and closures

\* What the statements of the three scripts leave alone.
others == <<status, published, export, panel, reach, map, game>>

vars == <<planet_osm_line, planet_osm_point, db, exists, pc, others>>

Tables ==
    {"roads", "crosswalk_raw_points", "road_crosswalks", "crosswalk_points",
     "marked_crosswalk_road", "road_segments_20m",
     "road_segments_20m_crosswalk_dist", "streets_analyzed",
     "roads_same_name_endpoints", "roads_same_name_edges",
     "roads_same_name_connected", "unmarked_crosswalks",
     "unmarked_crosswalk_points_enriched"}

S(op, tbl, how) == [op |-> op, tbl |-> tbl, how |-> how]

\* The statements of query_snippets/crosswalks.sql that change a table.
Phase1 ==
    << S("drop", "roads", ""), S("create", "roads", ""),
       S("drop", "crosswalk_raw_points", ""), S("create", "crosswalk_raw_points", ""),
       S("drop", "road_crosswalks", ""), S("create", "road_crosswalks", ""),
       S("drop", "crosswalk_points", ""), S("create", "crosswalk_points", "") >>

\* The statements of query_snippets/crosswalk_distances.sql: the name-radius
\* pass (lines 15-144), then the connected-component pass (lines 159-319).
Phase2 ==
    << S("drop", "marked_crosswalk_road", ""), S("drop", "road_segments_20m", ""),
       S("drop", "road_segments_20m_crosswalk_dist", ""),
       S("drop", "streets_analyzed", ""),
       S("create", "marked_crosswalk_road", ""), S("create", "road_segments_20m", ""),
       S("create", "road_segments_20m_crosswalk_dist", "name_radius"),
       S("create", "streets_analyzed", ""),
       S("drop", "marked_crosswalk_road", ""),
       S("drop", "roads_same_name_endpoints", ""),
       S("drop", "roads_same_name_edges", ""),
       S("drop", "roads_same_name_connected", ""),
       S("drop", "road_segments_20m", ""),
       S("drop", "road_segments_20m_crosswalk_dist", ""),
       S("create", "marked_crosswalk_road", ""), S("create", "road_segments_20m", ""),
       S("create", "roads_same_name_endpoints", ""),
       S("create", "roads_same_name_edges", ""),
       S("create", "roads_same_name_connected", ""),
       S("create", "road_segments_20m_crosswalk_dist", "connected") >>

\* The scoring of the segments, between the distances and their use.
Scoring == << S("score", "road_segments_20m_crosswalk_dist", "") >>

\* The third script with a statement that drops the per-segment table.
Phase3DroppingDistances ==
    << S("drop", "unmarked_crosswalks", ""),
       S("drop", "unmarked_crosswalk_points_enriched", ""),
       S("create", "unmarked_crosswalks", ""),
       S("drop", "road_segments_20m_crosswalk_dist", ""),
       S("create", "unmarked_crosswalk_points_enriched", "") >>

\* The statements of query_snippets/unmarked_crosswalks.sql.
Phase3 ==
    << S("drop", "unmarked_crosswalks", ""),
       S("drop", "unmarked_crosswalk_points_enriched", ""),
       S("create", "unmarked_crosswalks", ""),
       S("create", "unmarked_crosswalk_points_enriched", "") >>

\* scripts/run-analysis.sh: the three scripts in order.
Program == Phase1 \o Phase2 \o Scoring \o Phase3

\* The statement at pc, whether or not an earlier one has failed.
AtRegardless(op, tbl, how) ==
    /\ pc <= Len(Program)
    /\ Program[pc] = S(op, tbl, how)

At(op, tbl, how) ==
    /\ status = "running"
    /\ pc <= Len(Program)
    /\ Program[pc] = S(op, tbl, how)

\* The statement at pc ends and psql goes on to the next one.
Store(tbl, rows) ==
    /\ db' = [db EXCEPT ![tbl] = rows]
    /\ exists' = exists \cup {tbl}
    /\ pc' = pc + 1
    /\ UNCHANGED <<planet_osm_line, planet_osm_point, others>>

\* ----------------------------------------------------------------- inputs
Elm == "Elm St"
Oak == "Oak St"

Line(id, name, highway, way) ==
    [osm_id |-> id, name |-> name, highway |-> highway, way |-> way]

\* The line features an import may hold (coordinates in decimetres): two
\* Elm St ways end to start (1, 2), an unnamed and a blank-named way over
\* them (4, 5), a way of three parts, one of them of length 0 (6), a
\* residential way (7) that meets way 2 and leads into a way longer than
\* 500 m (10).
LineCatalogue ==
    { Line(1, Elm, "primary", <<<<-100, 300>>>>),
      Line(2, Elm, "primary", <<<<300, 500>>>>),
      Line(4, NULLSTR, "tertiary", <<<<0, 300>>>>),
      Line(5, " ", "primary", <<<<300, 500>>>>),
      Line(6, Elm, "primary", <<<<7000, 7100>>, <<7200, 7200>>, <<7300, 7550>>>>),
      Line(7, Oak, "residential", <<<<500, 650>>>>),
      Line(10, Oak, "secondary", <<<<650, 5900>>>>) }

Point(id, highway, crossing, markings, signals, way) ==
    [osm_id |-> id, highway |-> highway, crossing |-> crossing,
     markings |-> markings, signals |-> signals, way |-> way]

\* The point features an import may hold: marked crossings on the multi-part
\* way (101), where ways 7 and 10 meet (102), where ways 1 and 2 meet (103),
\* where ways 2 and 7 meet (104) and at the far end of way 10 (105); an
\* unmarked crossing of ways 2 and 7 (106) and one on no way (109).
PointCatalogue ==
    { Point(101, "crossing", "zebra", NULLSTR, NULLSTR, 7050),
      Point(102, "crossing", "marked", NULLSTR, NULLSTR, 650),
      Point(103, "crossing", "zebra", NULLSTR, NULLSTR, 300),
      Point(104, "crossing", "traffic_signals", NULLSTR, "yes", 500),
      Point(105, "crossing", NULLSTR, NULLSTR, "yes", 5900),
      Point(106, "crossing", "unmarked", NULLSTR, NULLSTR, 501),
      Point(109, "crossing", "unmarked", "no", NULLSTR, 6500) }

\* The <<speed limit, lane count>> the scorer may read (NULL: unknown).
ScoreInputs == { <<NULLNUM, NULLNUM>>, <<30, 4>> }

EmptyDb == [t \in Tables |-> {}]

\* The export has not started and has read nothing; runs is the number of
\* runs that had completed when it started.
ExportIdle == [step |-> "idle", runs |-> 0, streets |-> {}, unmarked |-> {}]

\* No panel is open.
PanelClosed == [froggerIndex |-> [kind |-> "none", v |-> 0], labels |-> << >>]

\* The recursive query is not being evaluated.
ReachIdle == [step |-> "idle", work |-> {}, rows |-> {}]

\* The map page is not open: no tile is loaded and nothing is selected.
MapIdle ==
    [open |-> FALSE, tiles |-> {}, unmarkedCrossingMarkers |-> {},
     markerRef |-> FALSE, selected |-> << >>, selectedUnmarked |-> << >>,
     selectedUnmarkedIdRef |-> NULLNUM, pinned |-> << >>]

\* The minigame page is not open.
GameIdle == [open |-> FALSE]

\* A first run starts on an empty database; nothing else is going on.
Quiet ==
    /\ status = "running"
    /\ published = << >>
    /\ export = ExportIdle
    /\ panel = PanelClosed
    /\ reach = ReachIdle
    /\ map = MapIdle
    /\ game = GameIdle

Init ==
    /\ planet_osm_line \in { L \in SUBSET LineCatalogue : Cardinality(L) <= MaxRoads }
    /\ planet_osm_point \in { P \in SUBSET PointCatalogue : Cardinality(P) <= MaxCrossings }
    /\ db = EmptyDb
    /\ exists = {}
    /\ pc = 1
    /\ Quiet

\* ---------------------------------------------------------------- actions
\* DROP TABLE IF EXISTS t
DropTable ==
    /\ status = "running"
    /\ pc <= Len(Program)
    /\ Program[pc].op = "drop"
    /\ db' = [db EXCEPT ![Program[pc].tbl] = {}]
    /\ exists' = exists \ {Program[pc].tbl}
    /\ pc' = pc + 1
    /\ UNCHANGED <<planet_osm_line, planet_osm_point, others>>

CreateRoads ==
    /\ At("create", "roads", "")
    /\ Store("roads", RoadsOf(planet_osm_line))

CreateCrosswalkRawPoints ==
    /\ At("create", "crosswalk_raw_points", "")
    /\ Store("crosswalk_raw_points", CrosswalkRawPointsOf(planet_osm_point))

CreateRoadCrosswalks ==
    /\ At("create", "road_crosswalks", "")
    /\ Store("road_crosswalks", RoadCrosswalksOf(db.crosswalk_raw_points, db.roads))

CreateCrosswalkPoints ==
    /\ At("create", "crosswalk_points", "")
    /\ Store("crosswalk_points",
             CrosswalkPointsOf(db.crosswalk_raw_points, db.road_crosswalks))

CreateMarkedCrosswalkRoad ==
    /\ At("create", "marked_crosswalk_road", "")
    /\ Store("marked_crosswalk_road",
             MarkedCrosswalkRoadOf(db.road_crosswalks, db.crosswalk_raw_points))

CreateRoadSegments20m ==
    /\ At("create", "road_segments_20m", "")
    /\ \E T \in RoadSegments20mTables(db.roads) : Store("road_segments_20m", T)

CreateDistNameRadius ==
    /\ At("create", "road_segments_20m_crosswalk_dist", "name_radius")
    /\ \E T \in NameRadiusDistTables(db.road_segments_20m,
                                     db.marked_crosswalk_road, db.roads) :
          Store("road_segments_20m_crosswalk_dist", T)

CreateStreetsAnalyzed ==
    /\ At("create", "streets_analyzed", "")
    /\ Store("streets_analyzed",
             StreetsAnalyzedOf(db.road_segments_20m_crosswalk_dist))

CreateSameNameEndpoints ==
    /\ At("create", "roads_same_name_endpoints", "")
    /\ Store("roads_same_name_endpoints", SameNameEndpointsOf(db.roads))

CreateSameNameEdges ==
    /\ At("create", "roads_same_name_edges", "")
    /\ Store("roads_same_name_edges", SameNameEdgesOf(db.roads_same_name_endpoints))

CreateSameNameConnected ==
    /\ At("create", "roads_same_name_connected", "")
    /\ Store("roads_same_name_connected",
             SameNameConnectedOf(db.roads_same_name_edges,
                                 db.roads_same_name_endpoints))

CreateDistConnected ==
    /\ At("create", "road_segments_20m_crosswalk_dist", "connected")
    /\ \E T \in ConnectedDistTables(db.road_segments_20m,
                                    db.marked_crosswalk_road,
                                    db.roads_same_name_connected) :
          Store("road_segments_20m_crosswalk_dist", T)

\* The scorer adds its columns to both per-segment tables.
ScoreSegments ==
    /\ At("score", "road_segments_20m_crosswalk_dist", "")
    /\ \E in \in ScoreInputs :
          db' = [db EXCEPT
                   !["road_segments_20m_crosswalk_dist"] =
                       { ScoredDistRow(r, in[1], in[2])
                         : r \in db.road_segments_20m_crosswalk_dist },
                   !["streets_analyzed"] =
                       { ScoredStreetRow(r, in[1], in[2]) : r \in db.streets_analyzed }]
    /\ pc' = pc + 1
    /\ UNCHANGED <<planet_osm_line, planet_osm_point, exists, others>>

CreateUnmarkedCrosswalks ==
    /\ At("create", "unmarked_crosswalks", "")
    /\ \E T \in UnmarkedTables(UnmarkedPairs(db.crosswalk_raw_points,
                                             db.road_crosswalks),
                               db.road_segments_20m_crosswalk_dist, db.roads) :
          Store("unmarked_crosswalks", T)

CreateEnriched ==
    /\ At("create", "unmarked_crosswalk_points_enriched", "")
    /\ \E T \in EnrichedTables({ cp \in db.crosswalk_points : cp.unmarked = SqlTrue },
                               db.road_segments_20m_crosswalk_dist, db.roads) :
          Store("unmarked_crosswalk_points_enriched", T)

Next ==
    \/ DropTable
    \/ CreateRoads
    \/ CreateCrosswalkRawPoints
    \/ CreateRoadCrosswalks
    \/ CreateCrosswalkPoints
    \/ CreateMarkedCrosswalkRoad
    \/ CreateRoadSegments20m
    \/ CreateDistNameRadius
    \/ CreateStreetsAnalyzed
    \/ CreateSameNameEndpoints
    \/ CreateSameNameEdges
    \/ CreateSameNameConnected
    \/ CreateDistConnected
    \/ ScoreSegments
    \/ CreateUnmarkedCrosswalks
    \/ CreateEnriched

Spec == Init /\ [][Next]_vars


\* A second specification: one crossing point on Elm St carrying any
\* combination of the three crossing tags, next to a marked crossing, a point
\* that is no crossing and a line that is no road, run through the same
\* program.
CrossingValues == {NULLSTR, "", "unmarked", "zebra", "traffic_signals", "island"}
MarkingValues == {NULLSTR, "no", "yes"}
SignalValues == {NULLSTR, "no", "yes"}

ClassifyInit ==
    /\ planet_osm_line = { Line(1, Elm, "primary", <<<<-100, 300>>>>),
                           Line(2, Elm, "primary", <<<<300, 500>>>>),
                           Line(8, Elm, "footway", <<<<0, 300>>>>) }
    /\ \E c \in CrossingValues, m \in MarkingValues, g \in SignalValues :
          planet_osm_point = { Point(120, "crossing", c, m, g, 300),
                               Point(103, "crossing", "zebra", NULLSTR, NULLSTR, 500),
                               Point(108, "bus_stop", NULLSTR, NULLSTR, NULLSTR, 0) }
    /\ db = EmptyDb
    /\ exists = {}
    /\ pc = 1
    /\ Quiet

ClassifySpec == ClassifyInit /\ [][Next]_vars


\* ------------------------------------------------------------- properties
\* The index in Program of the last statement (op, tbl, how).
StatementNo(op, tbl, how) ==
    CHOOSE i \in 1..Len(Program) :
        /\ Program[i] = S(op, tbl, how)
        /\ \A j \in (i + 1)..Len(Program) : Program[j] # S(op, tbl, how)

\* The last statement (op, tbl, how) of the program has run.
HasRun(op, tbl, how) == pc > StatementNo(op, tbl, how)

DistTable == db.road_segments_20m_crosswalk_dist

\* road_segments_20m_crosswalk_dist holds the result of the name-radius pass.
NameRadiusBuilt ==
    /\ HasRun("create", "road_segments_20m_crosswalk_dist", "name_radius")
    /\ ~HasRun("create", "road_segments_20m_crosswalk_dist", "connected")
    /\ "road_segments_20m_crosswalk_dist" \in exists

\* road_segments_20m_crosswalk_dist holds the result of the connected pass.
ConnectedBuilt == HasRun("create", "road_segments_20m_crosswalk_dist", "connected")

\* The scorer's columns are in place.
Scored == HasRun("score", "road_segments_20m_crosswalk_dist", "")

\* The marked crossing points linked to one of the roads roadIds.
LinkedMarked(roadIds) ==
    { cp \in db.crosswalk_raw_points :
        /\ cp.marked = SqlTrue
        /\ \E rc \in db.road_crosswalks : /\ rc.point_osm_id = cp.point_osm_id
                                          /\ rc.road_osm_id \in roadIds }

\* The roads that carry the (non-null, non-blank) name of the row's road.
SameNameRoads(row) ==
    IF row.name \in {NULLSTR, "", " "} THEN {}
    ELSE { r.road_osm_id : r \in { x \in db.roads : x.name = row.name } }

\* The membership set of the row's road.
MembershipSet(row) ==
    { c.road_osm_id : c \in { x \in db.roads_same_name_connected :
                                x.start_road_osm_id = row.road_osm_id } }

\* The name-radius candidates of a row, from the linkage and the road names.
NameRadiusEligible(row) ==
    { cp \in LinkedMarked(SameNameRoads(row)) :
        PointLineDist(cp.geom, row.geom) <= SearchRadius }

\* The connected-component candidates of a row.
ConnectedEligible(row) == LinkedMarked(MembershipSet(row))

\* The row reports a crossing of E at the least distance, and that distance.
ReportsNearestOf(row, E) ==
    \E cp \in E :
        /\ row.nearest_marked_crosswalk_id = cp.point_osm_id
        /\ row.dist_to_marked_crosswalk_m = PointLineDist(cp.geom, row.geom)
        /\ \A o \in E : row.dist_to_marked_crosswalk_m <= PointLineDist(o.geom, row.geom)

C2_NameRadiusNearest ==
    NameRadiusBuilt =>
        \A row \in DistTable :
            /\ IF NameRadiusEligible(row) = {}
               THEN /\ row.nearest_marked_crosswalk_id = NULLNUM
                    /\ row.dist_to_marked_crosswalk_m = FarSentinel
               ELSE ReportsNearestOf(row, NameRadiusEligible(row))
            /\ row.dist_to_marked_crosswalk_m <= SearchRadius

\* C2 happens: one row reports a crossing linked only to another road of its
\* name, and a row of a named road reports the sentinel.
C2_Witness ==
    /\ NameRadiusBuilt
    /\ \E row \in DistTable :
          /\ row.nearest_marked_crosswalk_id # NULLNUM
          /\ row.dist_to_marked_crosswalk_m > 0
          /\ ~\E rc \in db.road_crosswalks :
                 /\ rc.point_osm_id = row.nearest_marked_crosswalk_id
                 /\ rc.road_osm_id = row.road_osm_id
    /\ \E row \in DistTable :
          /\ row.name \in {Elm, Oak}
          /\ row.nearest_marked_crosswalk_id = NULLNUM
          /\ row.dist_to_marked_crosswalk_m = FarSentinel


\* C3: under the connected-component policy every segment row reports a
\* marked crossing at the least distance among the marked crossings linked
\* to a road of the membership set of the segment's road, however far; when
\* the membership set has no linked marked crossing, both the distance and
\* the crossing id are NULL.
C3_ConnectedNearest ==
    ConnectedBuilt =>
        \A row \in DistTable :
            IF ConnectedEligible(row) = {}
            THEN /\ row.nearest_marked_crosswalk_id = NULLNUM
                 /\ row.dist_to_marked_crosswalk_m = NULLNUM
            ELSE ReportsNearestOf(row, ConnectedEligible(row))

\* C3 happens: a row of road A reports, from beyond the search radius, a
\* crossing linked only to the same-name neighbour B whose start is A's end.
C3_Witness ==
    /\ ConnectedBuilt
    /\ \E row \in DistTable :
          /\ row.dist_to_marked_crosswalk_m > SearchRadius
          /\ ~\E rc \in db.road_crosswalks :
                 /\ rc.point_osm_id = row.nearest_marked_crosswalk_id
                 /\ rc.road_osm_id = row.road_osm_id
          /\ \E A \in db.roads_same_name_endpoints, B \in db.roads_same_name_endpoints :
                 /\ A.road_osm_id = row.road_osm_id
                 /\ A.name = B.name
                 /\ B.start_pt = A.end_pt
                 /\ \E rc \in db.road_crosswalks :
                        /\ rc.point_osm_id = row.nearest_marked_crosswalk_id
                        /\ rc.road_osm_id = B.road_osm_id

\* The row of the nearest-crossing table of segment s: same key, same geometry.
RowsOfSegment(s) ==
    { row \in DistTable : /\ row.road_osm_id = s.road_osm_id
                          /\ row.segment_no = s.segment_no
                          /\ row.geom = s.geom }

\* The nearest-crossing table and the segment table it was built from exist.
BothPoliciesBuilt ==
    /\ "road_segments_20m_crosswalk_dist" \in exists
    /\ "road_segments_20m" \in exists
    /\ \/ HasRun("create", "road_segments_20m_crosswalk_dist", "name_radius")
          /\ pc <= StatementNo("drop", "road_segments_20m", "")
       \/ ConnectedBuilt

\* C4: under both policies the nearest-crossing table holds exactly one row
\* for every road segment, and no other row.
C4_OneRowPerSegment ==
    BothPoliciesBuilt =>
        /\ \A s \in db.road_segments_20m : Cardinality(RowsOfSegment(s)) = 1
        /\ Cardinality(DistTable) = Cardinality(db.road_segments_20m)

\* C4 happens: the table holds the row of a segment of a named road without
\* any candidate, and the row of a segment whose reported crossing is linked
\* to two roads of its name.
C4_Witness ==
    /\ BothPoliciesBuilt
    /\ \E row \in DistTable :
          Cardinality({ rc \in db.road_crosswalks :
                          /\ rc.point_osm_id = row.nearest_marked_crosswalk_id
                          /\ rc.road_osm_id \in SameNameRoads(row) }) >= 2
    /\ \E row \in DistTable :
          /\ row.name \in {Elm, Oak}
          /\ row.nearest_marked_crosswalk_id = NULLNUM

\* The least crossing id among the crossings of E at the least distance.
SmallestNearestId(row, E) ==
    SetMin({ cp.point_osm_id : cp \in { x \in E :
        \A o \in E : PointLineDist(x.geom, row.geom) <= PointLineDist(o.geom, row.geom) } })

\* C5: under both policies, a row with several candidates at the same least
\* distance reports the smallest crossing id among them.
C5_TieSmallestId ==
    /\ NameRadiusBuilt =>
         \A row \in DistTable :
            NameRadiusEligible(row) # {} =>
               row.nearest_marked_crosswalk_id
                  = SmallestNearestId(row, NameRadiusEligible(row))
    /\ ConnectedBuilt =>
         \A row \in DistTable :
            ConnectedEligible(row) # {} =>
               row.nearest_marked_crosswalk_id
                  = SmallestNearestId(row, ConnectedEligible(row))

\* C6: once the membership table is built, it holds the pair (road, road)
\* for every road with a non-null, non-blank name.
C6_MembershipReflexive ==
    HasRun("create", "roads_same_name_connected", "") =>
        \A r \in db.roads :
            r.name \notin {NULLSTR, "", " "} =>
               [start_road_osm_id |-> r.road_osm_id, road_osm_id |-> r.road_osm_id]
                  \in db.roads_same_name_connected


\* The line parts of a road that have a positive length.
NonDegenerateParts(r) ==
    { i \in 1..Len(LineMerge(r.geom)) : LineLength(LineMerge(r.geom)[i]) > 0 }

\* max(ceil(len / segment length), 1)
ExpectedCount(len) ==
    IF (len + SegmentLen - 1) \div SegmentLen >= 1
    THEN (len + SegmentLen - 1) \div SegmentLen ELSE 1

\* The sum of the values of the function f of finite domain.
RECURSIVE SumOver(_)
SumOver(f) ==
    IF DOMAIN f = {} THEN 0
    ELSE LET x == CHOOSE y \in DOMAIN f : TRUE
         IN f[x] + SumOver([z \in DOMAIN f \ {x} |-> f[z]])

\* The number of segments the parts of road r call for.
ExpectedSegments(r) ==
    SumOver([i \in NonDegenerateParts(r) |->
                ExpectedCount(LineLength(LineMerge(r.geom)[i]))])

SegmentsOfRoad(r) == { s \in db.road_segments_20m : s.road_osm_id = r.road_osm_id }

\* CREATE UNLOGGED TABLE road_segments_20m has just run (either pass).
SegmentsBuilt == pc > 1 /\ Program[pc - 1] = S("create", "road_segments_20m", "")

\* C7: for every road, the segment_no values of all its segments are exactly
\* 0..n-1, each once, n being the sum over the road's non-degenerate parts
\* of max(ceil(part length / segment length), 1).
C7_SequenceNoContiguous ==
    SegmentsBuilt =>
        \A r \in db.roads :
            /\ { s.segment_no : s \in SegmentsOfRoad(r) } = 0..(ExpectedSegments(r) - 1)
            /\ Cardinality(SegmentsOfRoad(r)) = ExpectedSegments(r)

\* C7 happens: a road of a part of one segment, a part of length 0 and a
\* part of two segments is numbered 0, 1, 2.
C7_Witness ==
    /\ SegmentsBuilt
    /\ \E r \in db.roads :
          /\ Cardinality(NonDegenerateParts(r)) >= 2
          /\ Cardinality(NonDegenerateParts(r)) < Len(LineMerge(r.geom))
          /\ { s.segment_no : s \in SegmentsOfRoad(r) } = 0..2

\* The stretch n of a part of length len: from n * L to min((n + 1) * L, len).
StretchStart(n) == n * SegmentLen
StretchEnd(n, len) ==
    IF (n + 1) * SegmentLen <= len THEN (n + 1) * SegmentLen ELSE len

\* Segment s is the stretch n of the line part.
IsStretch(s, part, n) ==
    /\ s.geom[1] = PointAt(part, StretchStart(n))
    /\ s.geom[Len(s.geom)] = PointAt(part, StretchEnd(n, LineLength(part)))
    /\ LineLength(s.geom) = StretchEnd(n, LineLength(part)) - StretchStart(n)

\* Two segments share more than an end point.
Overlap(s, t) ==
    Min2(SetMax({ s.geom[i] : i \in 1..Len(s.geom) }),
         SetMax({ t.geom[i] : i \in 1..Len(t.geom) }))
      > Max2(SetMin({ s.geom[i] : i \in 1..Len(s.geom) }),
             SetMin({ t.geom[i] : i \in 1..Len(t.geom) }))

\* C8: for every non-degenerate part of length len of every road, the
\* segments are the stretches [n * L, min((n + 1) * L, len)] for
\* n = 0..ceil(len / L) - 1; every segment has a positive length, two
\* segments of a road share at most an end point, and the lengths of a road's
\* segments add up to the length of its non-degenerate parts.
C8_SegmentationLossless ==
    SegmentsBuilt =>
        \A r \in db.roads :
            LET segLen(s) == LineLength(s.geom)
                partLen(i) == LineLength(LineMerge(r.geom)[i])
            IN /\ \A i \in NonDegenerateParts(r) :
                     \A n \in 0..(((partLen(i) + SegmentLen - 1) \div SegmentLen) - 1) :
                        \E s \in SegmentsOfRoad(r) : IsStretch(s, LineMerge(r.geom)[i], n)
               /\ \A s \in SegmentsOfRoad(r) : segLen(s) > 0
               /\ \A s \in SegmentsOfRoad(r), t \in SegmentsOfRoad(r) :
                     s # t => ~Overlap(s, t)
               /\ SumOver([s \in SegmentsOfRoad(r) |-> segLen(s)])
                     = SumOver([i \in NonDegenerateParts(r) |-> partLen(i)])

\* C8 happens: the segments of a part of exactly two segment lengths and of
\* a part shorter than one segment length are built.
C8_Witness ==
    /\ SegmentsBuilt
    /\ \E r \in db.roads : \E i \in NonDegenerateParts(r) :
          /\ LineLength(LineMerge(r.geom)[i]) = 2 * SegmentLen
          /\ Cardinality(SegmentsOfRoad(r)) = 2
    /\ \E r \in db.roads : \E i \in NonDegenerateParts(r) :
          /\ LineLength(LineMerge(r.geom)[i]) < SegmentLen
          /\ Cardinality(SegmentsOfRoad(r)) = 1


\* C9: no row of crosswalk_raw_points has marked and unmarked both true,
\* whatever the values of crossing, crossing:markings and crossing:signals.
C9_NeverMarkedAndUnmarked ==
    \A cp \in db.crosswalk_raw_points :
        ~(cp.marked = SqlTrue /\ cp.unmarked = SqlTrue)

\* C10: a crossing point without crossing:markings and crossing:signals whose
\* crossing tag is absent, empty or in no known vocabulary is kept, with
\* crossing_type 'unknown' when the tag is absent or empty and with marked
\* and unmarked both FALSE (not NULL), and it is among the not-marked
\* crossings of unmarked_crosswalks.
C10_UnknownTagIsNotMarked ==
    \A p \in planet_osm_point :
        ( /\ p.highway = "crossing"
          /\ p.crossing \notin MarkedVocabulary \cup {"unmarked"}
          /\ p.markings = NULLSTR
          /\ p.signals = NULLSTR )
        => /\ HasRun("create", "crosswalk_raw_points", "") =>
                \E cp \in db.crosswalk_raw_points :
                    /\ cp.point_osm_id = p.osm_id
                    /\ p.crossing \in {NULLSTR, ""} => cp.crossing_type = "unknown"
                    /\ cp.marked = SqlFalse
                    /\ cp.unmarked = SqlFalse
           /\ HasRun("create", "unmarked_crosswalks", "") =>
                \E u \in db.unmarked_crosswalks : u.unmarked_crosswalk_id = p.osm_id


\* unmarked_crosswalk_points_enriched has been built.
EnrichedBuilt == HasRun("create", "unmarked_crosswalk_points_enriched", "")

\* The candidate segments of an enriched crossing: the scored segments of
\* its linked roads within the tight tolerance of the point.
CandidateSegments(e) ==
    { s \in DistTable : /\ s.road_osm_id \in e.road_osm_ids
                        /\ PointLineDist(e.geom, s.geom) <= TightTol }

\* The effective index of a segment: 0 for the low-volume classes, else the
\* stored index (NULL, the least value, when there is none).
EffectiveIndex(s) ==
    IF s.highway \in {"residential", "living_street", "service"} THEN 0
    ELSE s.frogger_index

C12_OneRowPerUnmarkedCrossing ==
    EnrichedBuilt =>
        \A cp \in db.crosswalk_raw_points :
            cp.unmarked = SqlTrue =>
                LET rows == { e \in db.unmarked_crosswalk_points_enriched :
                                e.point_osm_id = cp.point_osm_id }
                IN /\ Cardinality(rows) = 1
                   /\ \A e \in rows :
                         CandidateSegments(e) = {} =>
                            /\ e.frogger_road_osm_id = NULLNUM
                            /\ e.frogger_road_highway = NULLSTR
                            /\ e.frogger_index = NULLNUM


\* ------------------------------------------------------ the difficulty label
\* The value a panel is handed for the index: a finite number, kept in
\* thousandths, or one of the values that are not finite numbers.
JsNumber(v) == [kind |-> "number", v |-> v]
JsOther(k) == [kind |-> k, v |-> 0]

\* typeof x === 'number': NaN and the infinities are numbers too.
TypeofNumber(x) == x.kind \in {"number", "NaN", "Infinity", "-Infinity"}

\* Number.isFinite(x): no coercion, so only a finite number passes.
NumberIsFinite(x) == x.kind = "number"

\* The breakpoints 0.2, 0.4 and 0.6, in thousandths.
Easy == 200
Medium == 400
Hard == 600

\* FeatureInfoPanel.tsx with <= at the second breakpoint.
FeatureInfoPanelLabelInclusive(froggerIndex) ==
    IF ~NumberIsFinite(froggerIndex) THEN "easy"
    ELSE IF froggerIndex.v < Easy THEN "easy"
    ELSE IF froggerIndex.v <= Medium THEN "medium"
    ELSE IF froggerIndex.v < Hard THEN "hard"
    ELSE "Ft. Lauderdale"

\* froggerDifficultyLabel of FeatureInfoPanel.tsx.
FeatureInfoPanelLabel(froggerIndex) ==
    IF ~NumberIsFinite(froggerIndex) THEN "easy"
    ELSE IF froggerIndex.v < Easy THEN "easy"
    ELSE IF froggerIndex.v < Medium THEN "medium"
    ELSE IF froggerIndex.v < Hard THEN "hard"
    ELSE "Ft. Lauderdale"

\* froggerDifficultyLabel of UnmarkedCrossingInfoPanel.tsx.
UnmarkedCrossingInfoPanelLabel(froggerIndex) ==
    IF ~NumberIsFinite(froggerIndex) THEN "easy"
    ELSE IF froggerIndex.v < Easy THEN "easy"
    ELSE IF froggerIndex.v < Medium THEN "medium"
    ELSE IF froggerIndex.v < Hard THEN "hard"
    ELSE "Ft. Lauderdale"

\* froggerDifficultyLabel of app/frogger/page.tsx.
FroggerPageLabel(froggerIndex) ==
    IF ~TypeofNumber(froggerIndex) \/ ~NumberIsFinite(froggerIndex) THEN "easy"
    ELSE IF froggerIndex.v < Easy THEN "easy"
    ELSE IF froggerIndex.v < Medium THEN "medium"
    ELSE IF froggerIndex.v < Hard THEN "hard"
    ELSE "Ft. Lauderdale"

\* The indexes tried: a grid over and around [0, 1], both sides of every
\* breakpoint, and the values that are not finite numbers.
IndexStep == 10
IndexSamples ==
    { IndexStep * k - 50 : k \in 0..110 }
        \cup { Easy - 1, Easy + 1, Medium - 1, Medium + 1, Hard - 1, Hard + 1 }
PanelInputs ==
    { JsNumber(v) : v \in IndexSamples }
        \cup { JsOther(k) : k \in {"NaN", "Infinity", "-Infinity", "null",
                                   "undefined", "string"} }

\* A panel is opened on some index; the pipeline is not running.
PanelInit ==
    /\ planet_osm_line = {}
    /\ planet_osm_point = {}
    /\ db = EmptyDb
    /\ exists = {}
    /\ pc = Len(Program) + 1
    /\ status = "complete"
    /\ published = << >>
    /\ export = ExportIdle
    /\ reach = ReachIdle
    /\ map = MapIdle
    /\ game = GameIdle
    /\ \E x \in PanelInputs : panel = [froggerIndex |-> x, labels |-> << >>]

\* The two panels and the minigame page each render the label.
RenderLabels ==
    /\ panel.froggerIndex.kind # "none"
    /\ panel.labels = << >>
    /\ panel' = [panel EXCEPT !.labels =
                    << FeatureInfoPanelLabel(panel.froggerIndex),
                       UnmarkedCrossingInfoPanelLabel(panel.froggerIndex),
                       FroggerPageLabel(panel.froggerIndex) >>]
    /\ UNCHANGED <<planet_osm_line, planet_osm_point, db, exists, pc,
                   status, published, export, reach, map, game>>

PanelNext == RenderLabels

PanelSpec == PanelInit /\ [][PanelNext]_vars

\* The label the breakpoints give a finite index.
BucketOf(v) ==
    CASE v < 200 -> "easy"
      [] v >= 200 /\ v < 400 -> "medium"
      [] v >= 400 /\ v < 600 -> "hard"
      [] v >= 600 -> "Ft. Lauderdale"

Rendered == panel.labels # << >>

\* C13: the label is a total function of the index with breakpoints 0.2,
\* 0.4 and 0.6 (below 0.2 easy, below 0.4 medium, below 0.6 hard, otherwise
\* the top bucket); the three implementations return the same label for
\* every input, and an index that is missing or not finite is easy.
C13_LabelsAgreeOnBreakpoints ==
    Rendered =>
        /\ panel.labels[1] = panel.labels[2]
        /\ panel.labels[2] = panel.labels[3]
        /\ panel.labels[1] \in {"easy", "medium", "hard", "Ft. Lauderdale"}
        /\ panel.froggerIndex.kind = "number"
               => panel.labels[1] = BucketOf(panel.froggerIndex.v)
        /\ panel.froggerIndex.kind # "number" => panel.labels[1] = "easy"

\* An index exactly on a breakpoint was labelled, by all three.
C13_Witness ==
    /\ Rendered
    /\ panel.froggerIndex = JsNumber(Medium)
    /\ panel.labels = <<"hard", "hard", "hard">>


\* ------------------------------------------- runs, failures and the export
\* The cap and the default of the exported distance, 500.0 m.
ExportCap == 5000

\* LEAST(a, b): NULL arguments are ignored.
Least(a, b) ==
    IF a = NULLNUM THEN b ELSE IF b = NULLNUM THEN a ELSE Min2(a, b)

\* SELECT osm_id, name, highway, COALESCE(LEAST(dist_to_crossing_meters,
\* 500.0), 500.0), ... FROM streets_analyzed WHERE geom IS NOT NULL
ExportedStreets(rows) ==
    { [osm_id |-> r.osm_id, name |-> r.name, highway |-> r.highway,
       dist_to_crossing_meters |->
           Coalesce(Least(r.dist_to_crossing_meters, ExportCap), ExportCap),
       nearest_crossing_marked |-> r.nearest_crossing_marked,
       maxspeed |-> r.maxspeed, lanes |-> r.lanes,
       frogger_index |-> r.frogger_index, geom |-> r.geom]
      : r \in { x \in rows : x.geom # NULLGEOM } }

\* SELECT point_osm_id, frogger_index, ... FROM
\* unmarked_crosswalk_points_enriched WHERE geom IS NOT NULL (a point's
\* geometry is its coordinate)
ExportedUnmarked(rows) ==
    { [point_osm_id |-> r.point_osm_id, frogger_index |-> r.frogger_index,
       frogger_dist_to_marked_crosswalk_m |-> r.frogger_dist_to_marked_crosswalk_m,
       frogger_road_name |-> r.frogger_road_name,
       frogger_road_highway |-> r.frogger_road_highway,
       frogger_lanes |-> r.frogger_lanes,
       frogger_maxspeed |-> r.frogger_speed_mph,
       frogger_speed_mph |-> r.frogger_speed_mph, geom |-> r.geom]
      : r \in { x \in rows : x.geom # NULLNUM } }

\* The columns the streets export names are there once the scorer has added
\* its own to the rebuilt table.
HasScoreColumns(rows) == \A r \in rows : "frogger_index" \in DOMAIN r

\* How many times the analysis is run.
MaxRuns == 2

\* A statement fails: psql stops at it (ON_ERROR_STOP=1) and set -e ends the
\* script. What the earlier statements did stays.
Fail ==
    /\ status = "running"
    /\ pc <= Len(Program)
    /\ status' = "failed"
    /\ UNCHANGED <<planet_osm_line, planet_osm_point, db, exists, pc,
                   published, export, panel, reach, map, game>>

\* The last statement has ended: "Analysis complete!".
Complete ==
    /\ status = "running"
    /\ pc = Len(Program) + 1
    /\ status' = "complete"
    /\ published' = Append(published, db)
    /\ UNCHANGED <<planet_osm_line, planet_osm_point, db, exists, pc,
                   export, panel, reach, map, game>>

\* run-analysis.sh is started again on the same import.
StartRun ==
    /\ status = "complete"
    /\ Len(published) < MaxRuns
    /\ status' = "running"
    /\ pc' = 1
    /\ UNCHANGED <<planet_osm_line, planet_osm_point, db, exists,
                   published, export, panel, reach, map, game>>

\* to_regclass('public.streets_analyzed') | grep -q ... || exit 1
ExportCheckStreets ==
    /\ export.step = "idle"
    /\ export' = [export EXCEPT !.runs = Len(published),
                                 !.step = IF "streets_analyzed" \in exists
                                          THEN "streets_found" ELSE "no_streets"]
    /\ UNCHANGED <<planet_osm_line, planet_osm_point, db, exists, pc,
                   status, published, panel, reach, map, game>>

\* to_regclass('public.unmarked_crosswalk_points_enriched') ...
ExportCheckUnmarked ==
    /\ export.step = "streets_found"
    /\ export' = [export EXCEPT !.step =
                     IF "unmarked_crosswalk_points_enriched" \in exists
                     THEN "tables_found" ELSE "no_unmarked"]
    /\ UNCHANGED <<planet_osm_line, planet_osm_point, db, exists, pc,
                   status, published, panel, reach, map, game>>

\* ogr2ogr ... FROM streets_analyzed: it fails when the table or one of the
\* named columns is not there.
ExportStreets ==
    /\ export.step = "tables_found"
    /\ export' =
          IF "streets_analyzed" \in exists /\ HasScoreColumns(db.streets_analyzed)
          THEN [export EXCEPT !.step = "streets_read",
                              !.streets = ExportedStreets(db.streets_analyzed)]
          ELSE [export EXCEPT !.step = "streets_failed"]
    /\ UNCHANGED <<planet_osm_line, planet_osm_point, db, exists, pc,
                   status, published, panel, reach, map, game>>

\* ogr2ogr ... FROM unmarked_crosswalk_points_enriched
ExportUnmarked ==
    /\ export.step = "streets_read"
    /\ export' =
          IF "unmarked_crosswalk_points_enriched" \in exists
          THEN [export EXCEPT !.step = "unmarked_read",
                              !.unmarked =
                                  ExportedUnmarked(db.unmarked_crosswalk_points_enriched)]
          ELSE [export EXCEPT !.step = "unmarked_failed"]
    /\ UNCHANGED <<planet_osm_line, planet_osm_point, db, exists, pc,
                   status, published, panel, reach, map, game>>

\* An empty streets file ends the export; otherwise the tiles are generated
\* from the two files.
ExportTiles ==
    /\ export.step = "unmarked_read"
    /\ export' = [export EXCEPT !.step =
                     IF export.streets = {} THEN "empty" ELSE "tiles"]
    /\ UNCHANGED <<planet_osm_line, planet_osm_point, db, exists, pc,
                   status, published, panel, reach, map, game>>

\* The import of the runs: a primary way with a marked crossing at its start
\* (2, 103), an unnamed way (4), a way of two short parts (11), an unmarked
\* crossing on way 2 (106).
RunLines ==
    { Line(2, Elm, "primary", <<<<300, 500>>>>),
      Line(4, NULLSTR, "tertiary", <<<<0, 300>>>>),
      Line(11, Elm, "primary", <<<<1000, 1010>>, <<1100, 1110>>>>) }
RunPoints ==
    { Point(103, "crossing", "zebra", NULLSTR, NULLSTR, 300),
      Point(106, "crossing", "unmarked", NULLSTR, NULLSTR, 501) }

RunInit ==
    /\ planet_osm_line = RunLines
    /\ planet_osm_point = RunPoints
    /\ db = EmptyDb
    /\ exists = {}
    /\ pc = 1
    /\ Quiet

RunNext ==
    \/ Next
    \/ Fail
    \/ Complete
    \/ StartRun
    \/ ExportCheckStreets
    \/ ExportCheckUnmarked
    \/ ExportStreets
    \/ ExportUnmarked
    \/ ExportTiles

RunSpec == RunInit /\ [][RunNext]_vars


StreetsExported == export.step \in {"streets_read", "unmarked_read",
                                    "unmarked_failed", "empty", "tiles"}

\* C14: every exported street row has a distance in [0, 500] m, and a row
\* whose nearest_crossing_marked is false is exported with exactly 500 m.
C14_ExportedDistanceCapped ==
    StreetsExported =>
        \A r \in export.streets :
            /\ r.dist_to_crossing_meters >= 0
            /\ r.dist_to_crossing_meters <= 5000
            /\ r.nearest_crossing_marked = FALSE
                   => r.dist_to_crossing_meters = 5000

\* The export read a street without a marked crossing, at 500 m, and one
\* with a marked crossing nearer than that.
C14_Witness ==
    /\ StreetsExported
    /\ \E r \in export.streets :
          r.nearest_crossing_marked = FALSE /\ r.dist_to_crossing_meters = 5000
    /\ \E r \in export.streets :
          r.nearest_crossing_marked = TRUE /\ r.dist_to_crossing_meters < 5000


\* What the claim of repeatability is about, in the tables a run left: the
\* sequence number and the nearest crossing of every segment geometry, the
\* osm_id of every streets_analyzed geometry, the winning segment's road and
\* distance for every unmarked crossing.
Observable(d) ==
    [segments |-> { <<r.road_osm_id, r.geom, r.segment_no,
                      r.nearest_marked_crosswalk_id>>
                    : r \in d.road_segments_20m_crosswalk_dist },
     streets |-> { <<r.geom, r.osm_id>> : r \in d.streets_analyzed },
     winners |-> { <<e.point_osm_id, e.frogger_road_osm_id,
                     e.frogger_dist_to_marked_crosswalk_m>>
                   : e \in d.unmarked_crosswalk_points_enriched }]

\* The speed and lane tags the scorer read during a run.
Readings(d) ==
    { <<r.speed_mph, r.lanes>> : r \in d.road_segments_20m_crosswalk_dist }

\* C15: two runs on the same input give identical output: every geometry
\* gets the same sequence_no (also on multi-part roads), the same
\* streets_analyzed osm_id, the same nearest crossing id and the same winning
\* segment.
C15_RerunsIdentical ==
    (Len(published) = 2 /\ Readings(published[1]) = Readings(published[2]))
        => Observable(published[1]) = Observable(published[2])


OutputTables == {"streets_analyzed", "unmarked_crosswalk_points_enriched"}

\* The two output tables as the last completed run left them: their rows,
\* and whether they exist at all.
LastPublished ==
    IF published = << >>
    THEN [streets |-> {}, unmarked |-> {}, tables |-> {}]
    ELSE [streets |-> published[Len(published)].streets_analyzed,
          unmarked |-> published[Len(published)].unmarked_crosswalk_points_enriched,
          tables |-> OutputTables]

\* The two output tables as they are now.
CurrentOutput ==
    [streets |-> db.streets_analyzed,
     unmarked |-> db.unmarked_crosswalk_points_enriched,
     tables |-> exists \cap OutputTables]

\* C16: a failed run publishes nothing: after an abort streets_analyzed and
\* unmarked_crosswalk_points_enriched are exactly as the last successful run
\* left them.
C16_FailedRunPublishesNothing ==
    status = "failed" => CurrentOutput = LastPublished


\* The output a completed run offers to a reader: the rows the two export
\* queries return on its tables.
OfferedBy(d) ==
    [streets |-> ExportedStreets(d.streets_analyzed),
     unmarked |-> ExportedUnmarked(d.unmarked_crosswalk_points_enriched)]

\* The complete outputs there have been: those of the completed runs, and
\* that of a run whose last statement has ended.
CompleteOutputs ==
    { OfferedBy(published[i]) : i \in 1..Len(published) }
        \cup (IF status = "running" /\ pc = Len(Program) + 1
              THEN { OfferedBy(db) } ELSE {})

\* C17: a consumer reading the output tables at any moment of a run sees the
\* complete previous output or the complete new output: never a missing
\* table, a partly rebuilt table or tables of two different runs.
C17_ConsumerSeesOneRun ==
    export.runs > 0 =>
        /\ export.step \notin {"no_streets", "no_unmarked", "streets_failed",
                               "unmarked_failed"}
        /\ export.step \in {"unmarked_read", "empty", "tiles"} =>
               [streets |-> export.streets, unmarked |-> export.unmarked]
                   \in CompleteOutputs


\* ------------------------------------------- the recursive query, by rounds
\* The ways of the connectivity runs: Elm St from 0 to 300 m with two ways
\* side by side between 10 and 20 m (21, 22, 23, 24: a diamond), a way back
\* from 30 m to 0 (25: a cycle), a way on from 30 m (27), an Oak St way at
\* the same junction (26), an Elm St way of two parts (28) and an Elm St way
\* that touches no other (29).
ConnCatalogue ==
    { Line(21, Elm, "primary", <<<<0, 100>>>>),
      Line(22, Elm, "primary", <<<<100, 200>>>>),
      Line(23, Elm, "primary", <<<<100, 150, 200>>>>),
      Line(24, Elm, "primary", <<<<200, 300>>>>),
      Line(25, Elm, "primary", <<<<300, 0>>>>),
      Line(26, Oak, "primary", <<<<300, 400>>>>),
      Line(27, Elm, "primary", <<<<300, 350>>>>),
      Line(28, Elm, "primary", <<<<400, 410>>, <<420, 430>>>>),
      Line(29, Elm, "primary", <<<<600, 700>>>>) }

\* How many of them one import holds at most.
MaxConnRoads == 5

ConnInit ==
    /\ planet_osm_line \in { L \in SUBSET ConnCatalogue :
                               Cardinality(L) <= MaxConnRoads }
    /\ planet_osm_point = { Point(103, "crossing", "zebra", NULLSTR, NULLSTR, 300) }
    /\ db = EmptyDb
    /\ exists = {}
    /\ pc = 1
    /\ Quiet

\* The non-recursive term fills the working table.
ReachStart ==
    /\ At("create", "roads_same_name_connected", "")
    /\ reach.step = "idle"
    /\ reach' = [step |-> "rounds", work |-> ReachSeed(db.roads_same_name_edges),
                 rows |-> {}]
    /\ UNCHANGED <<planet_osm_line, planet_osm_point, db, exists, pc,
                   status, published, export, panel, map, game>>

\* One round: the working table goes to the result and the recursive term,
\* applied to it, gives the next working table.
ReachRound ==
    /\ reach.step = "rounds"
    /\ reach.work # {}
    /\ reach' = [reach EXCEPT !.rows = reach.rows \cup reach.work,
                              !.work = ReachStep(reach.work,
                                                 db.roads_same_name_edges)]
    /\ UNCHANGED <<planet_osm_line, planet_osm_point, db, exists, pc,
                   status, published, export, panel, map, game>>

\* A round gave no row: the final SELECT is stored.
ReachFinish ==
    /\ reach.step = "rounds"
    /\ reach.work = {}
    /\ db' = [db EXCEPT !["roads_same_name_connected"] =
                 ConnectedFrom(reach.rows, db.roads_same_name_endpoints)]
    /\ exists' = exists \cup {"roads_same_name_connected"}
    /\ pc' = pc + 1
    /\ reach' = ReachIdle
    /\ UNCHANGED <<planet_osm_line, planet_osm_point,
                   status, published, export, panel, map, game>>

\* The program with the recursive statement evaluated round by round.
ConnNext ==
    \/ DropTable
    \/ CreateRoads
    \/ CreateCrosswalkRawPoints
    \/ CreateRoadCrosswalks
    \/ CreateCrosswalkPoints
    \/ CreateMarkedCrosswalkRoad
    \/ CreateRoadSegments20m
    \/ CreateDistNameRadius
    \/ CreateStreetsAnalyzed
    \/ CreateSameNameEndpoints
    \/ CreateSameNameEdges
    \/ ReachStart
    \/ ReachRound
    \/ ReachFinish
    \/ CreateDistConnected
    \/ ScoreSegments
    \/ CreateUnmarkedCrosswalks
    \/ CreateEnriched

ConnSpec == ConnInit /\ [][ConnNext]_vars

\* The recursion goes on while the working table has rows, and the final
\* SELECT runs once it has none.
ConnFairSpec == ConnSpec /\ WF_vars(ReachRound) /\ WF_vars(ReachFinish)

\* The roads of the connectivity graph.
GraphRoads == { e.road_osm_id : e \in db.roads_same_name_endpoints }

\* ConnectivityEdge, from the road geometries: same non-empty name, different
\* ids, and one's end point is the other's start point.
ConnectivityEdge(a, b) ==
    /\ a.road_osm_id # b.road_osm_id
    /\ a.name # NULLSTR /\ Btrim(a.name) # "" /\ a.name = b.name
    /\ Len(a.geom) = 1 /\ Len(b.geom) = 1
    /\ \/ a.geom[1][Len(a.geom[1])] = b.geom[1][1]
       \/ a.geom[1][1] = b.geom[1][Len(b.geom[1])]

Successors(from) ==
    { b.road_osm_id : b \in { y \in db.roads :
          \E a \in db.roads : a.road_osm_id \in from /\ ConnectivityEdge(a, y) } }

\* Breadth-first search with a visited set.
RECURSIVE Visit(_, _)
Visit(frontier, visited) ==
    IF frontier = {} THEN visited
    ELSE Visit(Successors(frontier) \ visited,
               visited \cup Successors(frontier))

ReachableFrom(s) == Visit({s}, {s})

MembershipBuilt == HasRun("create", "roads_same_name_connected", "")

MembershipPairs ==
    { <<c.start_road_osm_id, c.road_osm_id>> : c \in db.roads_same_name_connected }

\* C18: the membership table is the reflexive-transitive closure of
\* ConnectivityEdge over the roads of the graph: (s, r) is present exactly
\* when r = s or r is reachable from s, as a search with a visited set finds
\* it, and each pair has one row, also with diamonds and cycles.
C18_MembershipIsClosure ==
    MembershipBuilt =>
        /\ MembershipPairs =
               { p \in GraphRoads \X GraphRoads : p[2] \in ReachableFrom(p[1]) }
        /\ Cardinality(db.roads_same_name_connected) = Cardinality(MembershipPairs)

\* The diamond and the cycle are both in the graph, and the far corner of
\* the diamond is in the set of the near one.
C18_Witness ==
    /\ MembershipBuilt
    /\ {21, 22, 23, 24, 25} \subseteq GraphRoads
    /\ <<21, 24>> \in MembershipPairs
    /\ <<24, 21>> \in MembershipPairs


Recursing == reach.step = "rounds"

NoRepeat(path) ==
    \A i, j \in 1..Len(path) : i # j => path[i] # path[j]

\* No row of the recursion, in the working table or in the result, has a
\* road twice on its path, so no path is longer than the graph has roads.
PathsSimple ==
    \A r \in reach.work \cup reach.rows :
        /\ NoRepeat(r.path)
        /\ Len(r.path) <= Cardinality(GraphRoads)

\* C19: the recursive closure terminates on every finite edge set, cycles
\* included: no path holds a road twice, every path has at most as many
\* entries as there are roads, and the recursion comes to a round without
\* new rows.
C19_ClosureTerminates ==
    /\ [](Recursing => PathsSimple)
    /\ Recursing ~> (reach.step = "idle")

\* The recursion went round the cycle of ways 21, 22, 24, 25 and stopped.
C19_Witness ==
    /\ Recursing
    /\ reach.work = {}
    /\ \E r \in reach.rows : Len(r.path) = 4 /\ r.path[1] = 21 /\ r.path[4] = 25


\* ------------------------------------------------------ the linker's inputs
\* Ways that meet at 30 m and at 50 m (4, 2, 7) and a way of two parts with
\* a gap between 101 m and 110 m (12).
LinkLines ==
    { Line(2, Elm, "primary", <<<<300, 500>>>>),
      Line(4, NULLSTR, "tertiary", <<<<0, 300>>>>),
      Line(7, Oak, "residential", <<<<500, 650>>>>),
      Line(12, Elm, "primary", <<<<1000, 1010>>, <<1100, 1110>>>>) }

\* Crossings on a junction (500), 0.1, 0.2 and 0.3 m off a way's end (501,
\* 502, 653, 997), between two ways (298), in the gap of way 12 (1050) and
\* far from every way (6500).
LinkPoints ==
    { Point(131, "crossing", "zebra", NULLSTR, NULLSTR, 500),
      Point(132, "crossing", "unmarked", NULLSTR, NULLSTR, 501),
      Point(133, "crossing", "zebra", NULLSTR, NULLSTR, 502),
      Point(134, "crossing", "unmarked", NULLSTR, NULLSTR, 653),
      Point(135, "crossing", "unmarked", NULLSTR, NULLSTR, 997),
      Point(136, "crossing", "zebra", NULLSTR, NULLSTR, 298),
      Point(137, "crossing", "unmarked", NULLSTR, NULLSTR, 1050),
      Point(138, "crossing", "zebra", NULLSTR, NULLSTR, 6500) }

\* How many crossings one import of the linker runs holds at most.
MaxLinkPoints == 2

LinkInit ==
    /\ planet_osm_line \in SUBSET LinkLines
    /\ planet_osm_point \in { P \in SUBSET LinkPoints :
                                Cardinality(P) <= MaxLinkPoints }
    /\ db = EmptyDb
    /\ exists = {}
    /\ pc = 1
    /\ Quiet

LinkSpec == LinkInit /\ [][Next]_vars

\* The positions on a geometry: every coordinate between two consecutive
\* vertices of one of its parts.
PositionsOn(geom) ==
    UNION { UNION { Min2(geom[i][j], geom[i][j + 1])
                        .. Max2(geom[i][j], geom[i][j + 1])
                    : j \in 1..(Len(geom[i]) - 1) }
            : i \in 1..Len(geom) }

\* The planar distance of a point to a geometry: that to its nearest position.
PlanarDistance(p, geom) == SetMin({ Abs(p - q) : q \in PositionsOn(geom) })

Linked == HasRun("create", "road_crosswalks", "")

Linkages == { <<l.road_osm_id, l.point_osm_id>> : l \in db.road_crosswalks }

\* C20: the linkage set is exactly the set of (road, crossing) pairs whose
\* planar distance is at most the snap distance: the bounding-box filter
\* drops no such pair, a crossing within the distance of several roads is
\* linked to each, and a crossing with no road within it has no linkage.
C20_LinkageIsWithinSnapDistance ==
    Linked =>
        Linkages = { <<r.road_osm_id, cp.point_osm_id>>
                     : <<r, cp>> \in { x \in db.roads \X db.crosswalk_raw_points :
                           PlanarDistance(x[2].geom, x[1].geom) <= SnapDist } }

\* A crossing 0.2 m past the end of way 2 is linked to it and to way 7, and
\* a crossing in the gap of way 12 is linked to nothing.
C20_Witness ==
    /\ Linked
    /\ {<<2, 133>>, <<7, 133>>} \subseteq Linkages
    /\ \E cp \in db.crosswalk_raw_points :
          /\ cp.point_osm_id = 137
          /\ \A l \in Linkages : l[2] # 137
    /\ \E r \in db.roads : r.road_osm_id = 12


\* ---------------------------------------------------- the enricher's inputs
\* Three ways that meet at 30 m: two Elm St ways (1, 2) and an unnamed way
\* (4), whose segments get no distance, and so no index, from the
\* connected-component pass.
EnrichLines ==
    { Line(1, Elm, "primary", <<<<-100, 300>>>>),
      Line(2, Elm, "primary", <<<<300, 500>>>>),
      Line(4, NULLSTR, "tertiary", <<<<0, 300>>>>) }

\* A marked crossing on the junction or at the far end of way 2, and an
\* unmarked one on the junction or 0.2 m into way 2.
EnrichPoints ==
    { Point(141, "crossing", "zebra", NULLSTR, NULLSTR, 300),
      Point(142, "crossing", "zebra", NULLSTR, NULLSTR, 500),
      Point(143, "crossing", "unmarked", NULLSTR, NULLSTR, 300),
      Point(144, "crossing", "unmarked", NULLSTR, NULLSTR, 302) }

\* How many crossings one import of the enricher runs holds at most.
MaxEnrichPoints == 2

EnrichInit ==
    /\ planet_osm_line \in SUBSET EnrichLines
    /\ planet_osm_point \in { P \in SUBSET EnrichPoints :
                                Cardinality(P) <= MaxEnrichPoints }
    /\ db = EmptyDb
    /\ exists = {}
    /\ pc = 1
    /\ Quiet

EnrichSpec == EnrichInit /\ [][Next]_vars

\* The candidates the enriched row e may have been copied from.
CopiedFrom(e) ==
    { s \in CandidateSegments(e) :
        /\ s.road_osm_id = e.frogger_road_osm_id
        /\ s.highway = e.frogger_road_highway
        /\ s.dist_to_marked_crosswalk_m = e.frogger_dist_to_marked_crosswalk_m
        /\ s.distance_from_crosswalk_score = e.frogger_distance_from_crosswalk_score
        /\ s.speed_mph = e.frogger_speed_mph
        /\ s.lanes = e.frogger_lanes }

\* s has the greatest stored index among the candidates of e (NULL is below
\* every index), and is nearest to the point among those with that index.
WinsOrderBy(s, e) ==
    /\ \A t \in CandidateSegments(e) : s.frogger_index >= t.frogger_index
    /\ \A t \in CandidateSegments(e) :
          t.frogger_index = s.frogger_index
              => PointLineDist(e.geom, s.geom) <= PointLineDist(e.geom, t.geom)

\* C21: for every unmarked crossing with a candidate segment the winning
\* segment is a candidate of maximal stored index, at minimal distance from
\* the point among the candidates of that index; a candidate with a NULL
\* index wins only when every candidate's index is NULL.
C21_WinnerIsMaxIndexThenNearest ==
    EnrichedBuilt =>
        \A e \in db.unmarked_crosswalk_points_enriched :
            CandidateSegments(e) # {} =>
                \E s \in CopiedFrom(e) : WinsOrderBy(s, e)

\* Two candidates with the same index at different distances and one with a
\* NULL index: the nearer of the two was taken.
C21_Witness ==
    /\ EnrichedBuilt
    /\ \E e \in db.unmarked_crosswalk_points_enriched :
          /\ e.frogger_road_osm_id = 2
          /\ \E s, t \in CandidateSegments(e) :
                /\ s.road_osm_id = 2 /\ t.road_osm_id = 1
                /\ s.frogger_index = t.frogger_index
                /\ s.frogger_index # NULLNUM
                /\ PointLineDist(e.geom, s.geom) < PointLineDist(e.geom, t.geom)
          /\ \E u \in CandidateSegments(e) : u.frogger_index = NULLNUM


\* The phase of the statement at position i of the program (the scoring
\* counts with the segments and distances), 4 past the last statement.
PhaseOf(i) ==
    IF i <= Len(Phase1) THEN 1
    ELSE IF i <= Len(Phase1) + Len(Phase2) + Len(Scoring) THEN 2
    ELSE IF i <= Len(Program) THEN 3
    ELSE 4

\* A step in which a statement took effect.
StatementStep == db' # db \/ exists' # exists \/ pc' = pc + 1

\* C22: the phases run strictly in the order linkage, segments and
\* distances, enrichment: statements run one after the other while no
\* statement has failed; after the first failure no statement runs and the
\* run never reports completion; completion is reported only after the last
\* statement.
C22_PhasesInOrderAndStopOnFailure ==
    [][ /\ StatementStep =>
              /\ status = "running" /\ status' = "running"
              /\ pc' = pc + 1
              /\ PhaseOf(pc') \in {PhaseOf(pc), PhaseOf(pc) + 1}
        /\ status = "failed" =>
              /\ status' = "failed"
              /\ UNCHANGED <<db, exists, pc, published>>
        /\ (status' = "complete" /\ status # "complete") =>
              /\ status = "running"
              /\ pc = Len(Program) + 1
              /\ pc' = pc
      ]_vars

\* A statement of the second phase failed after the first phase had built
\* its tables.
C22_Witness ==
    /\ status = "failed"
    /\ PhaseOf(pc) = 2
    /\ "crosswalk_points" \in exists
    /\ "unmarked_crosswalk_points_enriched" \notin exists


\* The tables each script builds.
Phase1Tables == { Phase1[i].tbl : i \in 1..Len(Phase1) }
Phase2Tables == { Phase2[i].tbl : i \in 1..Len(Phase2) }

\* The tables of T keep their rows and their existence in this step.
Untouched(T) ==
    /\ \A t \in T : db'[t] = db[t]
    /\ exists' \cap T = exists \cap T

\* C23: no phase changes a table of another phase or a source table: a
\* statement of the segment/distance phase leaves roads,
\* crosswalk_raw_points, road_crosswalks and crosswalk_points as they are, a
\* statement of the enrichment phase leaves the tables of the first two
\* phases as they are, and planet_osm_point and planet_osm_line never change.
C23_PhasesLeaveOtherTablesAlone ==
    [][ /\ (StatementStep /\ PhaseOf(pc) = 2) => Untouched(Phase1Tables)
        /\ (StatementStep /\ PhaseOf(pc) = 3)
              => Untouched(Phase1Tables \cup Phase2Tables)
        /\ UNCHANGED <<planet_osm_line, planet_osm_point>>
      ]_vars

\* All three phases have run over tables that hold rows.
C23_Witness ==
    /\ status = "running"
    /\ pc = Len(Program) + 1
    /\ db.crosswalk_points # {}
    /\ db.road_segments_20m_crosswalk_dist # {}
    /\ db.unmarked_crosswalk_points_enriched # {}


NameOfRoad(rid) == (CHOOSE r \in db.roads : r.road_osm_id = rid).name

\* C24: membership is an equivalence relation on the roads of the graph:
\* every road is in its own set, B in A's set puts A in B's set, membership
\* is transitive, and all roads of one set have the same name.
C24_MembershipIsEquivalence ==
    MembershipBuilt =>
        /\ \A a \in GraphRoads : <<a, a>> \in MembershipPairs
        /\ \A p \in MembershipPairs :
              /\ p[1] \in GraphRoads /\ p[2] \in GraphRoads
              /\ <<p[2], p[1]>> \in MembershipPairs
              /\ NameOfRoad(p[1]) = NameOfRoad(p[2])
        /\ \A p, q \in MembershipPairs :
              p[2] = q[1] => <<p[1], q[2]>> \in MembershipPairs

\* A chain of three Elm St ways and the Oak St way at its end: the ends of
\* the chain are in each other's set, the Oak St way is in neither.
C24_Witness ==
    /\ MembershipBuilt
    /\ {21, 22, 24, 26} \subseteq GraphRoads
    /\ 23 \notin GraphRoads /\ 25 \notin GraphRoads
    /\ <<21, 24>> \in MembershipPairs /\ <<24, 21>> \in MembershipPairs
    /\ <<24, 26>> \notin MembershipPairs /\ <<26, 26>> \in MembershipPairs


\* The streets_analyzed rows, built in the name-radius pass, of the segment
\* geometry the per-segment row r describes.
StreetRowsOf(r) ==
    { st \in db.streets_analyzed :
        st.geom = r.geom /\ st.name = r.name /\ st.highway = r.highway }

\* C25: for every segment, when the connected-component policy reports a
\* nearest marked crossing at a distance d of at most 500 m, the name-radius
\* policy reports a marked crossing too, at a distance of at most d, and not
\* the sentinel.
C25_ConnectedWithinRadiusImpliesNameRadius ==
    ConnectedBuilt =>
        \A r \in DistTable :
            (r.nearest_marked_crosswalk_id # NULLNUM
                 /\ r.dist_to_marked_crosswalk_m <= 5000) =>
                /\ StreetRowsOf(r) # {}
                /\ \A st \in StreetRowsOf(r) :
                      /\ st.nearest_crossing_marked = TRUE
                      /\ st.dist_to_crossing_meters <= r.dist_to_marked_crosswalk_m

\* The segment of way 21 gets the crossing at 30 m, which is on way 24 of
\* its membership set, from both policies.
C25_Witness ==
    /\ ConnectedBuilt
    /\ \E r \in DistTable :
          /\ r.road_osm_id = 21
          /\ r.nearest_marked_crosswalk_id = 103
          /\ r.dist_to_marked_crosswalk_m = 200
          /\ \E st \in StreetRowsOf(r) : st.dist_to_crossing_meters = 200


\* The streets_analyzed row of the segment (road, sequence number) of the
\* per-segment row r: its osm_id numbers the segments in that order.
StreetRowOfSegment(r) ==
    { st \in db.streets_analyzed : st.osm_id = RowNumber(r, DistTable) }

\* C26: once the segment/distance script has run, streets_analyzed and
\* road_segments_20m_crosswalk_dist describe the same result: for every
\* (road, sequence number) they agree on whether a nearest marked crossing
\* was found and, when one was, on the distance to it.
C26_PublishedAgreesWithPerSegment ==
    ConnectedBuilt =>
        \A r \in DistTable :
            \E st \in StreetRowOfSegment(r) :
                /\ st.nearest_crossing_marked
                       = (r.nearest_marked_crosswalk_id # NULLNUM)
                /\ st.nearest_crossing_marked
                       => st.dist_to_crossing_meters = r.dist_to_marked_crosswalk_m


\* ------------------------------------------- enrichment of linked crossings
\* Ways for the coverage of linked crossings: single-line ways 2 and 4, way
\* 13 with a line part and a degenerate part 10 m past its end, and way 14,
\* degenerate as a whole.
CoverLines ==
    { Line(2, Elm, "primary", <<<<300, 500>>>>),
      Line(4, NULLSTR, "tertiary", <<<<0, 300>>>>),
      Line(13, Oak, "secondary", <<<<2000, 2100>>, <<2200, 2200>>>>),
      Line(14, NULLSTR, "tertiary", <<<<2500, 2500>>>>) }

\* Unmarked crossings 0.1 m past the end of way 2 (501), 0.2 m past the line
\* part of way 13 (2102), on the degenerate part of way 13 (2200) and on way
\* 14 (2500).
CoverPoints ==
    { Point(151, "crossing", "unmarked", NULLSTR, NULLSTR, 501),
      Point(152, "crossing", "unmarked", NULLSTR, NULLSTR, 2102),
      Point(153, "crossing", "unmarked", NULLSTR, NULLSTR, 2200),
      Point(154, "crossing", "unmarked", NULLSTR, NULLSTR, 2500) }

\* How many crossings one import of the coverage runs holds at most.
MaxCoverPoints == 2

CoverInit ==
    /\ planet_osm_line \in SUBSET CoverLines
    /\ planet_osm_point \in { P \in SUBSET CoverPoints :
                                Cardinality(P) <= MaxCoverPoints }
    /\ db = EmptyDb
    /\ exists = {}
    /\ pc = 1
    /\ Quiet

CoverSpec == CoverInit /\ [][Next]_vars

\* The linked roads of an enriched crossing that have positive length.
LinkedRoadsOfPositiveLength(e) ==
    { r \in db.roads : /\ r.road_osm_id \in e.road_osm_ids
                       /\ \E i \in 1..Len(r.geom) : LineLength(r.geom[i]) > 0 }

\* C27: every unmarked crossing linked to at least one road of positive
\* length is enriched with a non-null road, each such road having a segment
\* within the enricher's tolerance of the point.
C27_LinkedCrossingIsEnriched ==
    EnrichedBuilt =>
        \A e \in db.unmarked_crosswalk_points_enriched :
            LinkedRoadsOfPositiveLength(e) # {}
                => /\ e.frogger_road_osm_id # NULLNUM
                   /\ \A r \in LinkedRoadsOfPositiveLength(e) :
                         \E s \in CandidateSegments(e) : s.road_osm_id = r.road_osm_id


\* ------------------------------------------------------ components/Map.tsx
\* A feature of the tiles' unmarked_crossings layer, on a cell of the
\* decluttering grid.
CrossingFeature(id, froggerIndex, cell) ==
    [point_osm_id |-> id, frogger_index |-> froggerIndex, cell |-> cell]

\* The crossings the tiles may hold: indexes 0, 0.19, 0.2, 0.21, 0.4, 0.6
\* and 1, one crossing without an index, two pairs on one grid cell.
CrossingFeatures ==
    { CrossingFeature(401, JsNumber(0), 1),
      CrossingFeature(402, JsNumber(Easy - 10), 2),
      CrossingFeature(403, JsNumber(Easy), 3),
      CrossingFeature(404, JsNumber(Easy + 10), 4),
      CrossingFeature(405, JsNumber(Medium), 4),
      CrossingFeature(406, JsNumber(Hard), 5),
      CrossingFeature(407, JsNumber(1000), 5),
      CrossingFeature(408, JsOther("undefined"), 6) }

\* The street features of the sketchiness layers.
StreetFeatures == {301, 302}

\* How many crossings the rendered tiles hold at most.
MaxTileFeatures == 2

\* The filter of the layer unmarked-crossings-hit:
\* ['>', ['get', 'frogger_index'], 0.2]; a missing property fails it.
HitLayerFilter(feature) ==
    /\ feature.frogger_index.kind = "number"
    /\ feature.frogger_index.v > 200

\* const UNMARKED_FROGGER_THRESHOLD = 0.2
UNMARKED_FROGGER_THRESHOLD == 200

\* typeof froggerRaw === 'number' ? froggerRaw : Number(froggerRaw), for the
\* values a tile property takes: a number, or undefined (NaN).
CoerceIndex(raw) ==
    IF TypeofNumber(raw) THEN raw
    ELSE JsOther("NaN")

\* syncUnmarkedCrossingMarkers skips the feature:
\* !Number.isFinite(frogger) || frogger <= UNMARKED_FROGGER_THRESHOLD
SyncSkips(feature) ==
    LET frogger == CoerceIndex(feature.frogger_index)
    IN \/ ~NumberIsFinite(frogger)
       \/ frogger.v <= UNMARKED_FROGGER_THRESHOLD

\* queryRenderedFeatures over the canvas, layer unmarked-crossings-hit, less
\* the features the loop skips.
MarkerCandidatesOf(m) == { f \in m.tiles : HitLayerFilter(f) /\ ~SyncSkips(f) }

MarkerCandidates == MarkerCandidatesOf(map)

\* The ids the loop may leave in nextIds: the selected crossing if it is a
\* candidate, and of every grid cell that has other candidates exactly one,
\* the first in the order of the query.
NextIdSets(m) ==
    LET sel == { f \in MarkerCandidatesOf(m) :
                   f.point_osm_id = m.selectedUnmarkedIdRef }
        rest == MarkerCandidatesOf(m) \ sel
        cells == { f.cell : f \in rest }
    IN { { f.point_osm_id : f \in sel \cup K }
         : K \in { J \in SUBSET rest :
                     \A c \in cells : Cardinality({ f \in J : f.cell = c }) = 1 } }

\* The map after syncUnmarkedCrossingMarkers: markers of nextIds are kept or
\* created, the others removed.
Synced(m) ==
    { [m EXCEPT !.unmarkedCrossingMarkers = N] : N \in NextIdSets(m) }

\* froggerIndex of the info: Number.isFinite(froggerIndex) ? froggerIndex : 0
InfoIndex(feature) ==
    LET froggerIndex == CoerceIndex(feature.frogger_index)
    IN IF NumberIsFinite(froggerIndex) THEN froggerIndex ELSE JsNumber(0)

\* The info of an unmarked crossing, as far as the panels read it.
UnmarkedCrossingInfo(feature) ==
    [id |-> feature.point_osm_id, froggerIndex |-> InfoIndex(feature)]

\* The page is open on some tiles; the URL has no pin, or a pin on a street,
\* on a crossing of the hit layer or on nothing.
MapInit ==
    /\ planet_osm_line = {}
    /\ planet_osm_point = {}
    /\ db = EmptyDb
    /\ exists = {}
    /\ pc = Len(Program) + 1
    /\ status = "complete"
    /\ published = << >>
    /\ export = ExportIdle
    /\ panel = PanelClosed
    /\ reach = ReachIdle
    /\ game = GameIdle
    /\ \E T \in { F \in SUBSET CrossingFeatures : Cardinality(F) <= MaxTileFeatures } :
       \E pin \in { << >>, <<[layer |-> "none", id |-> 0]>> }
                    \cup { <<[layer |-> "street", id |-> s]>> : s \in StreetFeatures }
                    \cup { <<[layer |-> "unmarked", id |-> f.point_osm_id]>>
                           : f \in { g \in T : HitLayerFilter(g) } } :
          map = [open |-> TRUE, onceIdle |-> TRUE, tiles |-> T,
                 unmarkedCrossingMarkers |-> {}, markerRef |-> FALSE,
                 selected |-> << >>, selectedUnmarked |-> << >>,
                 selectedUnmarkedIdRef |-> NULLNUM, pinned |-> pin]

MapQuiet ==
    UNCHANGED <<planet_osm_line, planet_osm_point, db, exists, pc,
                status, published, export, panel, reach, game>>

\* map.on('idle' | 'moveend', syncUnmarkedCrossingMarkers), once the
\* one-time idle listener has run.
SyncUnmarkedCrossingMarkers ==
    /\ map.open
    /\ ~map.onceIdle
    /\ map' \in Synced(map)
    /\ MapQuiet

\* The marker's click listener: the pin is removed and the crossing selected.
MarkerClicked(m, id) ==
    LET feature == CHOOSE f \in m.tiles : f.point_osm_id = id
    IN [m EXCEPT !.markerRef = FALSE,
                 !.selected = << >>,
                 !.selectedUnmarkedIdRef = id,
                 !.selectedUnmarked = <<UnmarkedCrossingInfo(feature)>>]

MarkerClick ==
    /\ map.open
    /\ \E id \in map.unmarkedCrossingMarkers : map' = MarkerClicked(map, id)
    /\ MapQuiet

\* A variant of SketchinessClicked that leaves the crossing selection alone.
SketchinessClickedKeepingCrossing(m, street) ==
    [m EXCEPT !.markerRef = TRUE,
              !.selected = <<street>>]

\* onSketchinessClick on a street feature: the pin is set on the click and
\* the street selected.
SketchinessClicked(m, street) ==
    [m EXCEPT !.markerRef = TRUE,
              !.selected = <<street>>,
              !.selectedUnmarked = << >>,
              !.selectedUnmarkedIdRef = NULLNUM]

OnSketchinessClick ==
    /\ map.open
    /\ \E street \in StreetFeatures : map' = SketchinessClicked(map, street)
    /\ MapQuiet

\* map.on('click') with no feature of the street or hit layers under it.
ClickAway ==
    /\ map.open
    /\ map' = [map EXCEPT !.markerRef = FALSE,
                          !.selected = << >>,
                          !.selectedUnmarked = << >>,
                          !.selectedUnmarkedIdRef = NULLNUM]
    /\ MapQuiet

\* applyPinnedLocationFromUrl on the map m; a rendered feature carries a
\* properties object, so the builders return an info.
PinnedApplied(m) ==
    IF m.pinned = << >> \/ m.pinned[1].layer = "none" THEN {m}
    ELSE IF m.pinned[1].layer = "unmarked"
    THEN LET top == CHOOSE f \in m.tiles : f.point_osm_id = m.pinned[1].id
             info == UnmarkedCrossingInfo(top)
             sel == [m EXCEPT !.markerRef = FALSE,
                              !.selected = << >>,
                              !.selectedUnmarkedIdRef = info.id,
                              !.selectedUnmarked = <<info>>]
         IN Synced(sel)
    ELSE { [m EXCEPT !.markerRef = TRUE,
                     !.selectedUnmarked = << >>,
                     !.selectedUnmarkedIdRef = NULLNUM,
                     !.selected = <<m.pinned[1].id>>] }

\* The first idle event: syncUnmarkedCrossingMarkers, then the one-time
\* listener applyPinnedLocationFromUrl.
FirstIdle ==
    /\ map.open
    /\ map.onceIdle
    /\ \E s \in Synced(map) :
          map' \in { [p EXCEPT !.onceIdle = FALSE] : p \in PinnedApplied(s) }
    /\ MapQuiet

\* A moveend before the first idle, the style being loaded.
MoveEndBeforeIdle ==
    /\ map.open
    /\ map.onceIdle
    /\ map' \in Synced(map)
    /\ MapQuiet

MapNext ==
    \/ FirstIdle
    \/ MoveEndBeforeIdle
    \/ SyncUnmarkedCrossingMarkers
    \/ MarkerClick
    \/ OnSketchinessClick
    \/ ClickAway

MapSpec == MapInit /\ [][MapNext]_vars

\* The crossings of the tiles whose index lies in [0, 1].
IndexedCrossings ==
    { f \in map.tiles : /\ f.frogger_index.kind = "number"
                        /\ f.frogger_index.v >= 0
                        /\ f.frogger_index.v <= 1000 }

\* C28: once the markers are synced, a crossing with an index in [0, 1] may
\* have a warning marker exactly when its panel label is not 'easy'; the
\* marker threshold and the label breakpoint select the same crossings,
\* the index 0.2 included.
C28_MarkerIffLabelNotEasy ==
    (map.open /\ ~map.onceIdle) =>
        \A f \in IndexedCrossings :
            (f \in MarkerCandidates)
                <=> (UnmarkedCrossingInfoPanelLabel(InfoIndex(f)) # "easy")


\* C29: after every sequence of map events (a click on a street, on an
\* unmarked-crossing marker, away from every feature, the restore of a
\* pinned location) at most one of the street selection and the crossing
\* selection is set, and while a crossing is selected there is no pin marker
\* and the selected-id reference is the selected crossing's id.
C29_SelectionsExclusive ==
    /\ ~(map.selected # << >> /\ map.selectedUnmarked # << >>)
    /\ map.selectedUnmarked # << >>
          => /\ ~map.markerRef
             /\ map.selectedUnmarkedIdRef = map.selectedUnmarked[1].id

\* A crossing is selected on a map that shows several markers, after the
\* one-time restore ran on a pinned street.
C29_Witness ==
    /\ map.open
    /\ ~map.onceIdle
    /\ map.pinned # << >>
    /\ map.pinned[1].layer = "street"
    /\ map.selectedUnmarked # << >>
    /\ Cardinality(map.unmarkedCrossingMarkers) >= 2


\* --------------------------------------------------- the crossing minigame
\* The player's rows: 0 is the top safe zone, PlayerRows the bottom safe
\* zone where the player starts, the rows between are the road.
PlayerRows == 3

\* The player's columns, 0..PlayerCols; the player starts in the middle.
PlayerCols == 2

\* The position resize() puts the player on.
PlayerStart == [x |-> PlayerCols \div 2, y |-> PlayerRows]

\* clampNumber(v, lo, hi)
ClampNumber(v, lo, hi) == Max2(lo, Min2(v, hi))

\* setStatus(v): the update is queued for the next render; updates are
\* plain values, so the last one queued is the one the render shows.
SetStatus(g, v) == [g EXCEPT !.pending = <<v>>]

\* restartGame: setAttempts and setResetToken are queued for the next render.
RestartGame(g) == [g EXCEPT !.restartPending = TRUE]

\* restartFromInput, in a closure that captured the status `captured`.
RestartFromInput(g, captured) ==
    IF captured = "won" /\ ~g.winCooldownOver THEN g
    ELSE RestartGame(g)

\* movePlayer(dx, dy), in a closure that captured the status `captured`.
MovePlayer(g, captured, dx, dy) ==
    IF captured = "countdown" THEN g
    ELSE IF captured # "playing" THEN RestartFromInput(g, captured)
    ELSE LET p == [x |-> ClampNumber(g.player.x + dx, 0, PlayerCols),
                   y |-> ClampNumber(g.player.y + dy, 0, PlayerRows)]
             moved == [g EXCEPT !.player = p]
         IN IF p.y <= 0
            THEN SetStatus([moved EXCEPT !.winCooldownOver = FALSE], "won")
            ELSE moved

\* resize(): the player is put back on the start, the start cooldown is set
\* and the status set to countdown.
Resized(g) ==
    SetStatus([g EXCEPT !.player = PlayerStart, !.countdownOver = FALSE],
              "countdown")

\* The keys of the model: the arrows, a modifier and another key.
Keys == {"ArrowUp", "ArrowDown", "ArrowLeft", "ArrowRight", "Shift", "x"}

\* onKeyDown(evt), the listener the key effect attached when it last ran;
\* withinCooldown: the last move was less than KEY_MOVE_COOLDOWN_MS ago.
KeyPressed(g, key, withinCooldown) ==
    IF g.keyStatus = "countdown" THEN g
    ELSE IF g.keyStatus # "playing"
    THEN IF key # "Shift" THEN RestartFromInput(g, g.keyStatus) ELSE g
    ELSE LET dx == CASE key = "ArrowLeft" -> -1
                     [] key = "ArrowRight" -> 1
                     [] OTHER -> 0
             dy == CASE key = "ArrowUp" -> -1
                     [] key = "ArrowDown" -> 1
                     [] OTHER -> 0
         IN IF dx = 0 /\ dy = 0 THEN g
            ELSE IF withinCooldown THEN g
            ELSE MovePlayer(g, g.keyStatus, dx, dy)

\* tick(t), the frame callback the tick effect requested when it last ran;
\* carHits: a car overlaps the player, which takes a player on the road.
Ticked(g, carHits) ==
    LET started == IF g.tickStatus = "countdown" /\ g.countdownOver
                   THEN SetStatus(g, "playing")
                   ELSE g
    IN IF /\ g.tickStatus = "playing"
          /\ carHits
          /\ g.player.y > 0
          /\ g.player.y < PlayerRows
       THEN SetStatus(started, "hit")
       ELSE started

\* The page is mounted: the first render showed countdown and the effects
\* ran on it.
GameInit ==
    /\ planet_osm_line = {}
    /\ planet_osm_point = {}
    /\ db = EmptyDb
    /\ exists = {}
    /\ pc = Len(Program) + 1
    /\ status = "complete"
    /\ published = << >>
    /\ export = ExportIdle
    /\ panel = PanelClosed
    /\ reach = ReachIdle
    /\ map = MapIdle
    /\ game = [open |-> TRUE, status |-> "countdown", pending |-> << >>,
               restartPending |-> FALSE, resizeDue |-> FALSE,
               effectsPending |-> FALSE, keyStatus |-> "countdown",
               tickStatus |-> "countdown", player |-> PlayerStart,
               countdownOver |-> FALSE, winCooldownOver |-> TRUE]

GameQuiet ==
    UNCHANGED <<planet_osm_line, planet_osm_point, db, exists, pc,
                status, published, export, panel, reach, map>>

\* A keydown event on the window.
OnKeyDown ==
    /\ game.open
    /\ \E key \in Keys, withinCooldown \in BOOLEAN :
          game' = KeyPressed(game, key, withinCooldown)
    /\ GameQuiet

\* onPointerDown of a touch button: movePlayer of the last render.
OnPointerDown ==
    /\ game.open
    /\ \E d \in {<<0, -1>>, <<-1, 0>>, <<0, 1>>, <<1, 0>>} :
          game' = MovePlayer(game, game.status, d[1], d[2])
    /\ GameQuiet

\* An animation frame.
Tick ==
    /\ game.open
    /\ \E carHits \in BOOLEAN : game' = Ticked(game, carHits)
    /\ GameQuiet

\* The ResizeObserver calls resize.
ResizeObserved ==
    /\ game.open
    /\ game' = Resized(game)
    /\ GameQuiet

\* onReset of the reset button.
OnReset ==
    /\ game.open
    /\ game' = RestartGame(game)
    /\ GameQuiet

\* START_COUNTDOWN_MS have passed since the last resize.
CountdownElapses ==
    /\ game.open
    /\ ~game.countdownOver
    /\ game' = [game EXCEPT !.countdownOver = TRUE]
    /\ GameQuiet

\* The three seconds after a win have passed.
WinCooldownElapses ==
    /\ game.open
    /\ ~game.winCooldownOver
    /\ game' = [game EXCEPT !.winCooldownOver = TRUE]
    /\ GameQuiet

\* A re-render: the queued updates become the state; the effects of the
\* render before have run.
Render ==
    /\ game.open
    /\ ~game.effectsPending
    /\ game.pending # << >> \/ game.restartPending
    /\ game' = [game EXCEPT
                  !.status = IF game.pending = << >> THEN @ ELSE game.pending[1],
                  !.pending = << >>,
                  !.resizeDue = game.restartPending,
                  !.restartPending = FALSE,
                  !.effectsPending = TRUE]
    /\ GameQuiet

\* The effects of the last render run: the resize effect if resetToken
\* changed, then the key effect and the tick effect, which attach callbacks
\* that capture the rendered status.
FlushEffects ==
    /\ game.open
    /\ game.effectsPending
    /\ LET g == IF game.resizeDue THEN Resized(game) ELSE game
       IN game' = [g EXCEPT !.resizeDue = FALSE,
                            !.effectsPending = FALSE,
                            !.keyStatus = game.status,
                            !.tickStatus = game.status]
    /\ GameQuiet

GameNext ==
    \/ OnKeyDown
    \/ OnPointerDown
    \/ Tick
    \/ ResizeObserved
    \/ OnReset
    \/ CountdownElapses
    \/ WinCooldownElapses
    \/ Render
    \/ FlushEffects

GameSpec == GameInit /\ [][GameNext]_vars

\* The transitions of the status the minigame is meant to make.
StatusTransitions ==
    { <<"countdown", "playing">>, <<"playing", "hit">>, <<"playing", "won">> }
        \cup { <<s, "countdown">> : s \in {"playing", "hit", "won"} }

\* C30: under every interleaving of key and touch callbacks, frames, resize
\* callbacks and re-renders, the status only goes from countdown to playing,
\* from playing to hit or won, and from any status to countdown, and the
\* player's position does not change while the status is countdown, but for
\* the reset of a resize.
C30_StatusTransitionsAndCountdownFreeze ==
    [][ /\ game'.status # game.status
            => <<game.status, game'.status>> \in StatusTransitions
        /\ game.status = "countdown"
            => game'.player = game.player \/ game'.player = PlayerStart ]_vars

====
